---- MODULE Spec2Model ----
(***************************************************************************)
(* A model of VeNRA.  Ingestion side: the segmenter, the numeric cell      *)
(* parser, the Table Melter, the Text Fact Normalizer and the ingestion    *)
(* pipeline run.  Query side: the dual retriever, the context assembler,   *)
(* the navigator and the reasoning agent with its code executor.           *)
(*                                                                         *)
(* Text is modelled at character level: a Python str is a sequence of      *)
(* one-character strings.  The six characters "&nbsp;" are one element,    *)
(* NBSP, because the code only ever handles them as that unit.             *)
(* Optional values (None or a value) are sequences of length 0 or 1.       *)
(* Floats are modelled by the integers they hold: the cell alphabets hold  *)
(* no decimal point and no exponent.                                        *)
(***************************************************************************)
EXTENDS Integers, Sequences, FiniteSets, TLC

VARIABLES
    cell,         \* SpecParse: the raw cell string handed to _parse_numeric
    parsed,       \* SpecParse: <<>> before the call, <<result>> after it
    table_block,  \* SpecMelt: the TableBlock handed to melt
    melted,       \* SpecMelt: <<>> before the call; after it, <<[ufl_rows, pushed]>>
    text_block,   \* SpecText: the TextBlock handed to extract_facts
    oracle,       \* SpecText: what the fact-extraction call does: [ok, facts]
    extracted,    \* SpecText: <<>> before the call, <<ufl_rows>> after it
    documents,    \* SpecIngest: the markdown documents the PDF parses to
    next_uuid,    \* SpecIngest: how many uuid4 values have been drawn
    parses,       \* SpecIngest: the block list of every parse_pdf call so far
    synthesized,  \* SpecIngest: per parse, the rows returned for its blocks so far
    dom_file,     \* SpecRun: <<>> or <<blocks>>, the pickled DOM of the document
    ufl_file,     \* SpecRun: <<>> or <<rows>>, the parquet ledger of the document
    content_index,\* SpecRun: the block ids in the text collection of the indexer
    schema_gen,   \* SpecRun: [entities, metrics] of the pipeline's SchemaGenerator
    schema_file,  \* SpecRun: <<>> or <<[entities, metrics]>>, the saved schema summary
    runs,         \* SpecRun: the outcome of every run call: [raised, blocks, rows]
    ufl_df,       \* SpecRetrieve: the retriever's DataFrame self.df: [columns, rows]
    text_collection, \* SpecRetrieve: the blocks in the text collection the retriever reads
    plan,         \* SpecRetrieve: the RetrievalPlan handed to retrieve
    retrieve_args,\* SpecRetrieve: [k, include_all_chunks_for_ufl, include_all_ufl_for_chunks]
    results,      \* SpecRetrieve, SpecAssemble: <<>> or <<what retrieve did>>
    instructions, \* SpecAssemble: the assembler's instructions prompt
    full_context, \* SpecAssemble: <<>> or <<the assembled context>>
    final_chunks, \* SpecAssemble: <<>> or <<the blocks assemble kept>> (history)
    query,        \* SpecQuery: the user's question
    navigator,    \* SpecQuery: navigate's position and the plan it returned: [pc, plan]
    agent         \* SpecQuery: answer's position, locals and history:
                  \*   [pc, reasoning, code_result, result, raised_in, trace]

parseVars == <<cell, parsed>>
meltVars == <<table_block, melted>>
textVars == <<text_block, oracle, extracted>>
ingestVars == <<documents, next_uuid, parses, synthesized>>
runVars == <<dom_file, ufl_file, content_index, schema_gen, schema_file, runs>>
retrieveVars == <<ufl_df, text_collection, plan, retrieve_args, results, instructions,
                  full_context, final_chunks>>
askVars == <<query, navigator, agent>>
queryVars == <<retrieveVars, askVars>>
vars == <<cell, parsed, table_block, melted, text_block, oracle, extracted,
          documents, next_uuid, parses, synthesized,
          dom_file, ufl_file, content_index, schema_gen, schema_file, runs,
          ufl_df, text_collection, plan, retrieve_args, results, instructions,
          full_context, final_chunks, query, navigator, agent>>

(***************************************************************************)
(* Python str helpers                                                      *)
(***************************************************************************)
NBSP == "&nbsp;"
\* The em dash and the en dash, one character each
EMDASH == "&mdash;"
ENDASH == "&ndash;"
None == <<>>
Some(v) == <<v>>

Digits == {"0", "1", "2", "3", "4", "5", "6", "7", "8", "9"}
LowerLetters == {"a", "b", "c", "d", "e", "f", "g", "h", "i", "j", "k", "l", "m",
                 "n", "o", "p", "q", "r", "s", "t", "u", "v", "w", "x", "y", "z"}
UpperLetters == {"A", "B", "C", "D", "E", "F", "G", "H", "I", "J", "K", "L", "M",
                 "N", "O", "P", "Q", "R", "S", "T", "U", "V", "W", "X", "Y", "Z"}

IsSpace(c) == c \in {" ", "\n", "\t"}
IsWordChar(c) == c \in Digits \cup LowerLetters \cup UpperLetters \cup {"_"}

DigitVal(c) ==
    CASE c = "0" -> 0 [] c = "1" -> 1 [] c = "2" -> 2 [] c = "3" -> 3 [] c = "4" -> 4
      [] c = "5" -> 5 [] c = "6" -> 6 [] c = "7" -> 7 [] c = "8" -> 8 [] c = "9" -> 9

LowerChar(c) ==
    CASE c = "A" -> "a" [] c = "B" -> "b" [] c = "C" -> "c" [] c = "D" -> "d"
      [] c = "E" -> "e" [] c = "F" -> "f" [] c = "G" -> "g" [] c = "H" -> "h"
      [] c = "I" -> "i" [] c = "J" -> "j" [] c = "K" -> "k" [] c = "L" -> "l"
      [] c = "M" -> "m" [] c = "N" -> "n" [] c = "O" -> "o" [] c = "P" -> "p"
      [] c = "Q" -> "q" [] c = "R" -> "r" [] c = "S" -> "s" [] c = "T" -> "t"
      [] c = "U" -> "u" [] c = "V" -> "v" [] c = "W" -> "w" [] c = "X" -> "x"
      [] c = "Y" -> "y" [] c = "Z" -> "z" [] OTHER -> c

\* str.lower()
Lower(s) == [i \in 1..Len(s) |-> LowerChar(s[i])]

\* s[a:b] with 1-based inclusive bounds; empty when a > b
Slice(s, a, b) == IF a > b THEN <<>> ELSE SubSeq(s, a, b)

RECURSIVE LStrip(_)
LStrip(s) == IF s # <<>> /\ IsSpace(s[1]) THEN LStrip(Tail(s)) ELSE s

RECURSIVE RStrip(_)
RStrip(s) == IF s # <<>> /\ IsSpace(s[Len(s)]) THEN RStrip(Slice(s, 1, Len(s) - 1)) ELSE s

\* str.strip()
Strip(s) == RStrip(LStrip(s))

\* str.replace(c, r) for a one-element pattern c
RECURSIVE ReplaceChar(_, _, _)
ReplaceChar(s, c, r) ==
    IF s = <<>> THEN <<>>
    ELSE (IF s[1] = c THEN r ELSE <<s[1]>>) \o ReplaceChar(Tail(s), c, r)

StartsWith(s, p) == Len(s) >= Len(p) /\ SubSeq(s, 1, Len(p)) = p
EndsWith(s, p) == Len(s) >= Len(p) /\ SubSeq(s, Len(s) - Len(p) + 1, Len(s)) = p

\* sub in s
Contains(s, sub) ==
    \E i \in 1..(Len(s) - Len(sub) + 1) : SubSeq(s, i, i + Len(sub) - 1) = sub

\* sep.join(parts)
RECURSIVE Join(_, _)
Join(parts, sep) ==
    IF parts = <<>> THEN <<>>
    ELSE IF Len(parts) = 1 THEN parts[1]
    ELSE parts[1] \o sep \o Join(Tail(parts), sep)

\* All strings over an alphabet up to a length
RECURSIVE StrUpTo(_, _)
StrUpTo(A, n) ==
    IF n = 0 THEN {<<>>}
    ELSE LET shorter == StrUpTo(A, n - 1)
         IN  shorter \cup {Append(s, c) : s \in {t \in shorter : Len(t) = n - 1}, c \in A}

(***************************************************************************)
(* TableMelter._parse_numeric                                              *)
(***************************************************************************)

\* The end index of a match of \s*\([\d\w]+\) that starts at index i of s, or 0.
\* \s* runs over the blanks at i; then "(", one or more word characters, ")".
RECURSIVE SkipSpaces(_, _)
SkipSpaces(s, i) == IF i <= Len(s) /\ IsSpace(s[i]) THEN SkipSpaces(s, i + 1) ELSE i

RECURSIVE SkipWordChars(_, _)
SkipWordChars(s, i) == IF i <= Len(s) /\ IsWordChar(s[i]) THEN SkipWordChars(s, i + 1) ELSE i

FootnoteMatchEnd(s, i) ==
    LET p == SkipSpaces(s, i)
        q == SkipWordChars(s, p + 1)
    IN  IF p <= Len(s) /\ s[p] = "(" /\ q > p + 1 /\ q <= Len(s) /\ s[q] = ")"
        THEN q ELSE 0

\* re.sub(r"\s*\([\d\w]+\)", "", s): leftmost matches, left to right
RECURSIVE StripFootnotesFrom(_, _)
StripFootnotesFrom(s, i) ==
    IF i > Len(s) THEN <<>>
    ELSE LET e == FootnoteMatchEnd(s, i)
         IN  IF e > 0 THEN StripFootnotesFrom(s, e + 1)
             ELSE <<s[i]>> \o StripFootnotesFrom(s, i + 1)

StripFootnotes(s) == StripFootnotesFrom(s, 1)

\* re.sub(r"([0-9])[a-z]$", r"\1", s)
StripTrailingLetter(s) ==
    IF Len(s) >= 2 /\ s[Len(s)] \in LowerLetters /\ s[Len(s) - 1] \in Digits
    THEN Slice(s, 1, Len(s) - 1) ELSE s

RECURSIVE DigitsValue(_)
DigitsValue(s) ==
    IF s = <<>> THEN 0 ELSE 10 * DigitsValue(Slice(s, 1, Len(s) - 1)) + DigitVal(s[Len(s)])

AllDigits(s) == s # <<>> /\ \A i \in 1..Len(s) : s[i] \in Digits

\* float(s) on the strings the cell alphabets can form: surrounding blanks are
\* ignored, then an optional sign and decimal digits.  None stands for ValueError.
PyFloat(s) ==
    LET t == Strip(s)
        signed == t # <<>> /\ t[1] \in {"-", "+"}
        body == IF signed THEN Tail(t) ELSE t
    IN  IF ~AllDigits(body) THEN None
        ELSE Some(IF signed /\ t[1] = "-" THEN 0 - DigitsValue(body) ELSE DigitsValue(body))

DashNuance == <<"Dash treated as zero">>
NegativeNuance == <<"Negative (parentheses)">>

_parse_numeric(val_str) ==
    LET s0 == Strip(Strip(ReplaceChar(val_str, NBSP, <<" ">>)))
        is_neg_parens == StartsWith(s0, <<"(">>) /\ EndsWith(s0, <<")">>)
        s1 == IF is_neg_parens THEN Slice(s0, 2, Len(s0) - 1) ELSE s0
        s2 == StripTrailingLetter(StripFootnotes(s1))
        s3 == Strip(ReplaceChar(ReplaceChar(s2, ",", <<>>), "$", <<>>))
        s4 == IF is_neg_parens THEN <<"-">> \o s3 ELSE s3
    IN  IF s0 \in {<<EMDASH>>, <<"-">>, <<ENDASH>>} THEN [val |-> Some(0), nuance |-> Some(DashNuance)]
        ELSE IF s3 = <<>> \/ Lower(s3) \in {<<"n", "/", "a">>, <<"n", "a", "n">>}
             THEN [val |-> None, nuance |-> None]
        ELSE IF PyFloat(s4) = None THEN [val |-> None, nuance |-> None]
        ELSE [val |-> PyFloat(s4), nuance |-> IF is_neg_parens THEN Some(NegativeNuance) ELSE None]

(***************************************************************************)
(* TableMelter.melt                                                        *)
(*                                                                         *)
(* A line of a table block is the sequence of its raw cell texts: the line *)
(* <<c1, c2>> is the text "|" c1 "|" c2 "|".  A blank line is <<>>.  Cell  *)
(* texts hold no "|".                                                      *)
(***************************************************************************)
Min(a, b) == IF a < b THEN a ELSE b

LineText(line) == IF line = <<>> THEN <<>> ELSE <<"|">> \o Join(line, <<"|">>) \o <<"|">>

\* re.match(r"^\|?\s*:?-+:?\s*\|", line.strip()): the first cell is a dash run
IsSeparatorLine(line) ==
    /\ line # <<>>
    /\ LET u == Strip(line[1])
           v == IF u # <<>> /\ u[1] = ":" THEN Tail(u) ELSE u
           w == IF v # <<>> /\ v[Len(v)] = ":" THEN Slice(v, 1, Len(v) - 1) ELSE v
       IN  w # <<>> /\ \A i \in 1..Len(w) : w[i] = "-"

IsIndentChar(c) == c = NBSP \/ IsSpace(c)

RECURSIVE SkipIndent(_, _)
SkipIndent(s, i) == IF i <= Len(s) /\ IsIndentChar(s[i]) THEN SkipIndent(s, i + 1) ELSE i

\* re.match(r"\|?\s*((?:&nbsp;|\s)*)([^|]+)", line): \s* takes the leading
\* blanks of the first cell, group 1 the run of &nbsp;/blanks after them and
\* group 2 the rest of the cell; group 2 needs one character and takes it
\* back from group 1, or from \s*, when the rest is empty.
IndentMatch(line) ==
    IF line = <<>> \/ line[1] = <<>> THEN [ok |-> FALSE, indent |-> <<>>, text |-> <<>>]
    ELSE LET r == LStrip(line[1])
             n == SkipIndent(r, 1) - 1
             g1 == Slice(r, 1, n)
             rest == Slice(r, n + 1, Len(r))
         IN  IF rest # <<>> THEN [ok |-> TRUE, indent |-> g1, text |-> rest]
             ELSE IF g1 # <<>>
                  THEN [ok |-> TRUE, indent |-> Slice(g1, 1, n - 1), text |-> <<g1[n]>>]
             ELSE [ok |-> TRUE, indent |-> <<>>, text |-> <<" ">>]

\* line.strip("|") seen as cells: the pipes next to empty cells at either end go too
RECURSIVE DropEmptyFront(_)
DropEmptyFront(cs) == IF cs # <<>> /\ cs[1] = <<>> THEN DropEmptyFront(Tail(cs)) ELSE cs

RECURSIVE DropEmptyBack(_)
DropEmptyBack(cs) ==
    IF cs # <<>> /\ cs[Len(cs)] = <<>> THEN DropEmptyBack(Slice(cs, 1, Len(cs) - 1)) ELSE cs

StripPipes(line) == DropEmptyBack(DropEmptyFront(line))

\* [p.strip() for p in line.strip().strip("|").split("|")]
SplitParts(line) ==
    LET cs == StripPipes(line)
    IN  IF cs = <<>> THEN <<<<>>>> ELSE [i \in 1..Len(cs) |-> Strip(cs[i])]

HeaderWords == {<<"i", "t", "e", "m">>, <<"v", "a", "l", "u", "e">>,
                <<"m", "e", "t", "r", "i", "c">>}

ArrowSep == <<" ", ">", " ">>

\* One pass of the loop of lines 83-125 over a line: st holds parent_stack and
\* hierarchy_lines, and pushed, the index of every line that was pushed as a parent.
HierarchyStep(st, line) ==
    LET m == IndentMatch(line)
        metric_text == Strip(m.text)
        depth == Len(ReplaceChar(m.indent, NBSP, <<" ", " ">>)) \div 2
        popped == Slice(st.parent_stack, 1, Min(depth, Len(st.parent_stack)))
        full_name == Join(Append(popped, metric_text), ArrowSep)
        parts == SplitParts(line)
        is_parent == Len(parts) > 1 /\ \A i \in 2..Len(parts) : parts[i] = <<>>
        push == is_parent \/ Len(parts) = 1
        new_parts == [parts EXCEPT ![1] = full_name]
        new_line == [i \in 1..Len(new_parts) |-> <<" ">> \o new_parts[i] \o <<" ">>]
        unchanged == [st EXCEPT !.hierarchy_lines = Append(@, line)]
    IN  IF line = <<>> \/ IsSeparatorLine(line) THEN unchanged
        ELSE IF ~m.ok THEN unchanged
        ELSE IF metric_text = <<>> \/ Lower(metric_text) \in HeaderWords THEN unchanged
        ELSE [parent_stack |-> IF push THEN Append(popped, metric_text) ELSE popped,
              hierarchy_lines |-> Append(st.hierarchy_lines, new_line),
              pushed |-> IF push THEN st.pushed \cup {Len(st.hierarchy_lines) + 1}
                         ELSE st.pushed]

RECURSIVE HierarchyPass(_, _)
HierarchyPass(st, lines) ==
    IF lines = <<>> THEN st
    ELSE HierarchyPass(HierarchyStep(st, lines[1]), Tail(lines))

HierarchyLines(lines) ==
    HierarchyPass([parent_stack |-> <<>>, hierarchy_lines |-> <<>>, pushed |-> {}], lines)

\* pd.read_csv(..., sep=r"\s*\|\s*", engine="python") of the joined clean lines.
\* The python engine strips each line and splits it at the separator, skips
\* blank lines, takes the first line as the header, pads short rows with NaN
\* and raises when a row has more fields than the header (it would instead
\* take an index column when the first data row has exactly one field more;
\* the tables of this model never have that shape).
NanStr == <<"n", "a", "n">>

NaStrings == {<<>>, <<"N", "/", "A">>, <<"n", "/", "a">>, <<"N", "A">>, NanStr,
              <<"N", "a", "N">>, <<"n", "u", "l", "l">>, <<"N", "U", "L", "L">>,
              <<"N", "o", "n", "e">>}

CsvFields(line) ==
    LET cs == StripPipes(line) IN [i \in 1..Len(cs) |-> Strip(cs[i])]

IsCsvRecord(line) == CsvFields(line) # <<>> /\ CsvFields(line) # <<<<>>>>

ReadCsv(hierarchy_lines) ==
    LET IsClean(l) == ~IsSeparatorLine(l)
        clean_lines == SelectSeq(hierarchy_lines, IsClean)
        kept == SelectSeq(clean_lines, IsCsvRecord)
        recs == [i \in 1..Len(kept) |-> CsvFields(kept[i])]
    IN  IF recs = <<>> THEN [ok |-> FALSE, columns |-> <<>>, rows |-> <<>>]
        ELSE IF \E i \in 2..Len(recs) : Len(recs[i]) > Len(recs[1])
             THEN [ok |-> FALSE, columns |-> <<>>, rows |-> <<>>]
        ELSE [ok |-> TRUE,
              columns |-> [j \in 1..Len(recs[1]) |-> Strip(recs[1][j])],
              rows |-> Tail(recs)]

\* str(row[col]).strip() for column number j of a row of the frame
CellStr(row, j) == IF j > Len(row) \/ row[j] \in NaStrings THEN NanStr ELSE Strip(row[j])

\* TableMelter._is_period_col: re.search(r"20\d{2}", col_name)
_is_period_col(col_name) ==
    \E i \in 1..(Len(col_name) - 3) :
        /\ col_name[i] = "2" /\ col_name[i + 1] = "0"
        /\ col_name[i + 2] \in Digits /\ col_name[i + 3] \in Digits

KwMillions == <<"m", "i", "l", "l", "i", "o", "n", "s">>
KwThousands == <<"t", "h", "o", "u", "s", "a", "n", "d", "s">>
Kw000s == <<"0", "0", "0", "s">>

\* TableMelter._detect_scale; block.content is the stripped join of the lines
_detect_scale(block) ==
    LET first_line == IF block.lines = <<>> THEN <<>> ELSE LineText(block.lines[1])
        context == Lower(Join(block.section_path, <<" ">>)) \o <<" ">> \o Lower(first_line)
    IN  IF Contains(context, KwMillions) THEN 1000000
        ELSE IF Contains(context, KwThousands) \/ Contains(context, Kw000s) THEN 1000
        ELSE 1

KwPerShare == {<<"p", "e", "r", " ", "s", "h", "a", "r", "e">>, <<"e", "p", "s">>}
KwRatio == {<<"r", "a", "t", "i", "o">>,
            <<"p", "e", "r", "c", "e", "n", "t", "a", "g", "e">>,
            <<"m", "a", "r", "g", "i", "n">>}
KwRestated == <<"r", "e", "s", "t", "a", "t", "e", "d">>

\* settings.CONFIDENCE_TABLE and CONFIDENCE_TEXT_LOW, in hundredths
CONFIDENCE_TABLE == 95
CONFIDENCE_TEXT_LOW == 60

\* str(n) of a non-negative integer
RECURSIVE NatStr(_)
NatStr(n) ==
    LET d == <<"0", "1", "2", "3", "4", "5", "6", "7", "8", "9">>[(n % 10) + 1]
    IN  IF n < 10 THEN <<d>> ELSE NatStr(n \div 10) \o <<d>>

\* str(x) of a float holding the integer v (below 1e16 in size)
FloatStr(v) == (IF v < 0 THEN <<"-">> \o NatStr(0 - v) ELSE NatStr(v)) \o <<".", "0">>

\* f"{x}" of an optional float
OptFloatStr(x) == IF x = None THEN <<"N", "o", "n", "e">> ELSE FloatStr(x[1])

\* hashlib.md5(seed.encode()).hexdigest(), taken as injective on the seed
Md5(seed) == <<"md5", seed>>

\* The seed without the period
RowIdSeed_NoPeriod(entity_id, metric, period, block_id, val_str) ==
    Join(<<entity_id, metric, block_id, val_str>>, <<"_">>)

\* f"{entity_id}_{metric}_{period}_{block.id}_{value}" (lines 173 and 319)
RowIdSeed(entity_id, metric, period, block_id, val_str) ==
    Join(<<entity_id, metric, period, block_id, val_str>>, <<"_">>)

\* The scale of every row is the scale of the table
RowScaleFactor_TableWide(metric_clean, table_scale_factor) == table_scale_factor

\* row_scale_factor of lines 152-160: per-share and ratio metrics are not scaled
RowScaleFactor(metric_clean, table_scale_factor) ==
    LET low == Lower(metric_clean)
    IN  IF (\E kw \in KwPerShare : Contains(low, kw)) \/ (\E kw \in KwRatio : Contains(low, kw))
        THEN 1 ELSE table_scale_factor

\* Every row gets the table confidence
RowConfidence_Always(val) == CONFIDENCE_TABLE

\* confidence of lines 165-168: 0.0 for a placeholder row
RowConfidence(val) == IF val = None THEN 0 ELSE CONFIDENCE_TABLE

\* The UFLRow built for one (row of the frame, period column) pair, lines 150-189
MeltRow(block, entity_id, table_scale_factor, metric_raw, period, raw_val) ==
    LET metric_clean == Strip(StripFootnotes(metric_raw))
        low == Lower(metric_clean)
        per_share == \E kw \in KwPerShare : Contains(low, kw)
        ratio == \E kw \in KwRatio : Contains(low, kw)
        row_scale_factor == RowScaleFactor(metric_clean, table_scale_factor)
        unit == IF per_share THEN "USD/Share" ELSE IF ratio THEN "Ratio" ELSE "USD"
        num == _parse_numeric(raw_val)
        scaled_val == IF num.val # None THEN Some(num.val[1] * row_scale_factor) ELSE None
        confidence == RowConfidence(num.val)
        nuance == IF Contains(Lower(period), KwRestated)
                  THEN (IF num.nuance # None /\ num.nuance[1] # <<>>
                        THEN Some(num.nuance[1] \o <<" (Restated)">>)
                        ELSE Some(<<"Restated">>))
                  ELSE num.nuance
    IN  [row_id |-> Md5(RowIdSeed(entity_id, metric_clean, period, block.id,
                                  OptFloatStr(scaled_val))),
         entity_id |-> entity_id,
         metric_name |-> metric_clean,
         value |-> scaled_val,
         unit |-> unit,
         scale_factor |-> row_scale_factor,
         period |-> period,
         doc_section |-> Join(block.section_path, ArrowSep),
         source_chunk_id |-> block.id,
         nuance_note |-> nuance,
         confidence |-> confidence,
         related_entity_id |-> None]

\* The column numbers in period_cols (lines 140-142)
PeriodCols(columns) ==
    LET hits == {j \in 2..Len(columns) : _is_period_col(columns[j])}
    IN  IF hits # {} THEN hits ELSE IF Len(columns) > 1 THEN {2} ELSE {}

RECURSIVE SetToSortedSeq(_)
SetToSortedSeq(S) ==
    IF S = {} THEN <<>>
    ELSE LET m == CHOOSE x \in S : \A y \in S : x <= y
         IN  <<m>> \o SetToSortedSeq(S \ {m})

\* The rows the loop of lines 145-189 appends for one row of the frame
MeltFrameRow(block, entity_id, scale, columns, row) ==
    LET metric_raw == CellStr(row, 1)
        cols == SetToSortedSeq(PeriodCols(columns))
    IN  IF metric_raw = <<>> \/ Lower(metric_raw) = NanStr THEN <<>>
        ELSE [k \in 1..Len(cols) |->
                 MeltRow(block, entity_id, scale, metric_raw, columns[cols[k]],
                         CellStr(row, cols[k]))]

RECURSIVE MeltFrameRows(_, _, _, _, _)
MeltFrameRows(block, entity_id, scale, columns, rows) ==
    IF rows = <<>> THEN <<>>
    ELSE MeltFrameRow(block, entity_id, scale, columns, rows[1])
         \o MeltFrameRows(block, entity_id, scale, columns, Tail(rows))

\* content.strip().split("\n") seen as lines: blank lines at either end go
RECURSIVE TrimBlankLines(_)
TrimBlankLines(lines) ==
    IF lines # <<>> /\ lines[1] = <<>> THEN TrimBlankLines(Tail(lines))
    ELSE IF lines # <<>> /\ lines[Len(lines)] = <<>>
         THEN TrimBlankLines(Slice(lines, 1, Len(lines) - 1))
    ELSE lines

\* TableMelter.melt: the list of UFLRows of a table block
melt(block, entity_id) ==
    LET df == ReadCsv(HierarchyLines(TrimBlankLines(block.lines)).hierarchy_lines)
    IN  IF ~df.ok THEN <<>>
        ELSE MeltFrameRows(block, entity_id, _detect_scale(block), df.columns, df.rows)

(***************************************************************************)
(* SpecParse: _parse_numeric applied to every cell over a small alphabet   *)
(***************************************************************************)
MaxCellLen == 6
CellAlphabet == {"1", ",", "(", ")", "a"}

NoBlock == [id |-> <<>>, section_path |-> <<>>, lines |-> <<>>]
NoTextBlock == [id |-> <<>>, section_path |-> <<>>, content |-> <<>>]
NoOracle == [ok |-> FALSE, facts |-> <<>>]

\* The variables of a specification that does not use them
ParseIdle == cell = <<>> /\ parsed = <<>>
MeltIdle == table_block = NoBlock /\ melted = <<>>
TextIdle == text_block = NoTextBlock /\ oracle = NoOracle /\ extracted = <<>>
IngestIdle == documents = <<>> /\ next_uuid = 0 /\ parses = <<>> /\ synthesized = <<>>
NoSchema == [entities |-> <<>>, metrics |-> <<>>]
RunIdle ==
    /\ dom_file = <<>> /\ ufl_file = <<>> /\ content_index = {}
    /\ schema_gen = NoSchema /\ schema_file = <<>> /\ runs = <<>>
RetrieveIdle ==
    /\ ufl_df = <<>> /\ text_collection = {} /\ plan = <<>> /\ retrieve_args = <<>>
    /\ results = <<>> /\ instructions = <<>> /\ full_context = <<>>
    /\ final_chunks = <<>>
AskIdle == query = <<>> /\ navigator = <<>> /\ agent = <<>>
QueryIdle == RetrieveIdle /\ AskIdle

InitParse ==
    /\ cell \in StrUpTo(CellAlphabet, MaxCellLen)
    /\ parsed = <<>>
    /\ MeltIdle /\ TextIdle /\ IngestIdle /\ RunIdle /\ QueryIdle

ParseNumeric ==
    /\ parsed = <<>>
    /\ parsed' = <<_parse_numeric(cell)>>
    /\ UNCHANGED <<cell, meltVars, textVars, ingestVars, runVars, queryVars>>

NextParse == ParseNumeric

SpecParse == InitParse /\ [][NextParse]_vars

(***************************************************************************)
(* SpecMelt: melt applied to every table of two small families             *)
(***************************************************************************)
\* "| " indent label " | " cell " | " ... " |"
MkRow(indent, label, cells) ==
    <<<<" ">> \o indent \o label \o <<" ">>>>
    \o [i \in 1..Len(cells) |-> <<" ">> \o cells[i] \o <<" ">>]

SepLine(n) == [i \in 1..n |-> <<"-", "-", "-">>]

\* All sequences over S of length 0..n
RECURSIVE SeqsUpTo(_, _)
SeqsUpTo(S, n) ==
    IF n = 0 THEN {<<>>}
    ELSE LET shorter == SeqsUpTo(S, n - 1)
         IN  shorter \cup {Append(q, x) : q \in {t \in shorter : Len(t) = n - 1}, x \in S}

MaxHierRows == 3
MaxFlatRows == 1

StrMetric == <<"M", "e", "t", "r", "i", "c">>
StrCash == <<"C", "a", "s", "h">>
StrEPS == <<"E", "P", "S">>
Str2023 == <<"2", "0", "2", "3">>
Str2022 == <<"2", "0", "2", "2">>
Str2022Restated == Str2022 \o <<" ", "(", "R", "e", "s", "t", "a", "t", "e", "d", ")">>
StrInMillions == <<"(", "I", "n", " ", "m", "i", "l", "l", "i", "o", "n", "s", ")">>
StrNotes == <<"N", "o", "t", "e", "s">>
EntityId == <<"I", "D", "_", "T">>
BlockId1 == <<"b1">>

SectionPaths == {<<StrNotes>>, <<StrNotes, StrInMillions>>}

\* One value column; rows indented by nothing, one &nbsp; or two blanks
Indents == {<<>>, <<NBSP>>, <<" ", " ">>}
HierLabels == {StrCash, StrEPS}
HierCells == {<<>>, <<"5">>}
HierRows == {MkRow(ind, lab, <<c>>) : ind \in Indents, lab \in HierLabels, c \in HierCells}
HierTables ==
    {<<MkRow(<<>>, StrMetric, <<Str2023>>), SepLine(2)>> \o body :
        body \in SeqsUpTo(HierRows, MaxHierRows)}

\* An original and a restated column; flat rows; cells that parse and cells that do not
FlatLabels == {StrCash, StrEPS, NanStr}
FlatCells == {<<>>, <<"5">>, <<"x">>, <<"-">>}
FlatRows == {MkRow(<<>>, lab, <<c1, c2>>) : lab \in FlatLabels, c1 \in FlatCells, c2 \in FlatCells}
FlatTables ==
    {<<MkRow(<<>>, StrMetric, <<Str2022, Str2022Restated>>), SepLine(3)>> \o body :
        body \in SeqsUpTo(FlatRows, MaxFlatRows)}

InitMelt ==
    /\ \E ls \in HierTables \cup FlatTables, sp \in SectionPaths :
          table_block = [id |-> BlockId1, section_path |-> sp, lines |-> ls]
    /\ melted = <<>>
    /\ ParseIdle /\ TextIdle /\ IngestIdle /\ RunIdle /\ QueryIdle

Melt ==
    /\ melted = <<>>
    /\ melted' = <<[ufl_rows |-> melt(table_block, EntityId),
                    pushed |-> HierarchyLines(TrimBlankLines(table_block.lines)).pushed]>>
    /\ UNCHANGED <<table_block, parseVars, textVars, ingestVars, runVars, queryVars>>

NextMelt == Melt

SpecMelt == InitMelt /\ [][NextMelt]_vars

(***************************************************************************)
(* TextSynthesizer.extract_facts                                           *)
(*                                                                         *)
(* A ScrapedFact is [metric_name, value, unit, period, related_entity,     *)
(* nuance_note, confidence]; value is [kind, num, str] with kind "none",   *)
(* "num" or "str"; confidence is in hundredths.                            *)
(***************************************************************************)
StrUnknown == <<"U", "N", "K", "N", "O", "W", "N">>
StrNone == <<"N", "o", "n", "e">>
RawValueOpen == <<" ", "(", "R", "a", "w", " ", "V", "a", "l", "u", "e", ":", " ">>

NoValue == [kind |-> "none", num |-> 0, str |-> <<>>]
NumValue(n) == [kind |-> "num", num |-> n, str |-> <<>>]
StrValue(t) == [kind |-> "str", num |-> 0, str |-> t]

\* Line 316: the nuance note of a fact whose string value is not a float
RawNuance_KeepNote(final_nuance, value) == final_nuance

RawNuance(final_nuance, value) ==
    IF final_nuance # None /\ final_nuance[1] # <<>>
    THEN Some(final_nuance[1] \o RawValueOpen \o value \o <<")">>)
    ELSE Some(value)

\* Lines 304-316: final_value and final_nuance of one fact
CoerceValue(fact) ==
    LET clean_val == Strip(ReplaceChar(fact.value.str, ",", <<>>))
    IN  IF fact.value.kind = "num"
        THEN [final_value |-> Some(fact.value.num), final_nuance |-> fact.nuance_note]
        ELSE IF fact.value.kind = "str"
        THEN IF PyFloat(clean_val) # None
             THEN [final_value |-> PyFloat(clean_val), final_nuance |-> fact.nuance_note]
             ELSE [final_value |-> None,
                   final_nuance |-> RawNuance(fact.nuance_note, fact.value.str)]
        ELSE [final_value |-> None, final_nuance |-> fact.nuance_note]

\* Line 302: a fact below the minimum confidence is skipped
KeepFact_Always(fact) == TRUE

KeepFact(fact) == ~(fact.confidence < CONFIDENCE_TEXT_LOW)

\* The UFLRow of one kept fact, lines 304-336
FactRow(block, entity_id, fact) ==
    LET period == IF fact.period # None /\ fact.period[1] # <<>>
                  THEN fact.period[1] ELSE StrUnknown
        co == CoerceValue(fact)
        val_str == IF co.final_value # None THEN FloatStr(co.final_value[1]) ELSE StrNone
    IN  [row_id |-> Md5(RowIdSeed(entity_id, fact.metric_name, period, block.id, val_str)),
         entity_id |-> entity_id,
         metric_name |-> fact.metric_name,
         value |-> co.final_value,
         unit |-> fact.unit,
         scale_factor |-> 1,
         period |-> period,
         doc_section |-> Join(block.section_path, ArrowSep),
         source_chunk_id |-> block.id,
         nuance_note |-> co.final_nuance,
         confidence |-> fact.confidence,
         related_entity_id |-> fact.related_entity]

RECURSIVE FactRows(_, _, _)
FactRows(block, entity_id, facts) ==
    IF facts = <<>> THEN <<>>
    ELSE (IF KeepFact(facts[1]) THEN <<FactRow(block, entity_id, facts[1])>> ELSE <<>>)
         \o FactRows(block, entity_id, Tail(facts))

\* extract_facts(block) when the oracle call does resp: a raised call gives []
extract_facts(block, entity_id, resp) ==
    IF Len(Strip(block.content)) < 10 THEN <<>>
    ELSE IF ~resp.ok THEN <<>>
    ELSE FactRows(block, entity_id, resp.facts)

(***************************************************************************)
(* SpecText: extract_facts applied to a text block and an oracle response  *)
(***************************************************************************)
MaxFacts == 2

StrBacklog == <<"B", "a", "c", "k", "l", "o", "g", " ", "i", "s", " ", "$", "5">>
StrShort == <<"n", "/", "a">>
BlockId2 == <<"b2">>
TextContents == {StrBacklog, StrShort}

Fact(m, v, p, r, n, c) ==
    [metric_name |-> m, value |-> v, unit |-> <<"U", "S", "D">>, period |-> p,
     related_entity |-> r, nuance_note |-> n, confidence |-> c]

\* Facts that differ in metric and period, in value and nuance, in confidence,
\* in related entity
SampleFacts ==
    {Fact(m, NumValue(5), p, None, None, 95) :
        m \in {<<"a">>, <<"a", "_", "b">>},
        p \in {None, Some(<<"c">>), Some(<<"b", "_", "c">>)}}
    \cup {Fact(<<"a">>, v, Some(<<"c">>), None, n, 95) :
        v \in {NoValue, StrValue(<<"1", ",", "0", "0", "0">>), StrValue(<<"x">>),
               StrValue(<<"1", ",", "x">>), StrValue(<<>>)},
        n \in {None, Some(<<"n">>)}}
    \cup {Fact(<<"a">>, NumValue(5), Some(<<"c">>), None, None, c) :
        c \in {0, 59, 60, 100, 150}}
    \cup {Fact(<<"a">>, NoValue, Some(<<"c">>), Some(<<r>>), None, 95) : r \in {"E", "F"}}

InitText ==
    /\ \E c \in TextContents :
          text_block = [id |-> BlockId2, section_path |-> <<StrNotes>>, content |-> c]
    /\ \E ok \in BOOLEAN, fs \in SeqsUpTo(SampleFacts, MaxFacts) :
          oracle = [ok |-> ok, facts |-> IF ok THEN fs ELSE <<>>]
    /\ extracted = <<>>
    /\ ParseIdle /\ MeltIdle /\ IngestIdle /\ RunIdle /\ QueryIdle

ExtractFacts ==
    /\ extracted = <<>>
    /\ extracted' = <<extract_facts(text_block, EntityId, oracle)>>
    /\ UNCHANGED <<text_block, oracle, parseVars, meltVars, ingestVars, runVars, queryVars>>

NextText == ExtractFacts

SpecText == InitText /\ [][NextText]_vars

(***************************************************************************)
(* StructuralParser.parse_pdf                                              *)
(*                                                                         *)
(* A markdown line is [pipe, cells, text]: a line of table cells (its text *)
(* is LineText(cells)) or a line of plain text.  A DocBlock is [id,        *)
(* block_type, section_path, content, lines]; lines is the content seen as *)
(* table lines, the form melt reads.                                       *)
(***************************************************************************)
NL == "\n"

CellsLine(cells) == [pipe |-> TRUE, cells |-> cells, text |-> <<>>]
TextLine(text) == [pipe |-> FALSE, cells |-> <<>>, text |-> text]
MdText(line) == IF line.pipe THEN LineText(line.cells) ELSE line.text

\* str(uuid.uuid4()) for the n-th value drawn: never one drawn before
Uuid4(n) == <<"u">> \o NatStr(n)

\* re.match(r"^(#+)\s+(.*)", line): level is the number of "#", title the rest
RECURSIVE SkipHashes(_, _)
SkipHashes(s, i) == IF i <= Len(s) /\ s[i] = "#" THEN SkipHashes(s, i + 1) ELSE i

HeaderMatch(text) ==
    LET n == SkipHashes(text, 1) - 1
    IN  IF n >= 1 /\ n < Len(text) /\ IsSpace(text[n + 1])
        THEN [ok |-> TRUE, level |-> n, title |-> Strip(Slice(text, n + 1, Len(text)))]
        ELSE [ok |-> FALSE, level |-> 0, title |-> <<>>]

HasPipe(line) == Contains(MdText(line), <<"|">>)
AnyPipe(lines) == \E i \in 1..Len(lines) : HasPipe(lines[i])

\* "\n".join(lines).strip()
ChunkContent(lines) == Strip(Join([i \in 1..Len(lines) |-> MdText(lines[i])], <<NL>>))

\* _flush_chunk, _create_text_block, _create_table_block: st is [all_blocks, uuid]
_flush_chunk(lines, stack, st) ==
    IF lines = <<>> \/ ChunkContent(lines) = <<>> THEN st
    ELSE LET has_separator == \E i \in 1..Len(lines) :
                 HasPipe(lines[i]) /\ Contains(MdText(lines[i]), <<"-", "-", "-">>)
             block == [id |-> Uuid4(st.uuid + 1),
                       block_type |-> IF AnyPipe(lines) /\ has_separator THEN "table" ELSE "text",
                       section_path |-> stack,
                       content |-> ChunkContent(lines),
                       lines |-> [i \in 1..Len(lines) |->
                                     IF lines[i].pipe THEN lines[i].cells ELSE <<>>]]
         IN  [all_blocks |-> Append(st.all_blocks, block), uuid |-> st.uuid + 1]

\* header_stack = header_stack[:level-1]; header_stack.append(title)
PushHeader_NoTruncate(header_stack, level, title) == Append(header_stack, title)

PushHeader(header_stack, level, title) ==
    Append(Slice(header_stack, 1, Min(level - 1, Len(header_stack))), title)

\* Lines 59-71: the line is of another kind than the lines buffered so far
KindChange_ToTableOnly(current_chunk, line) ==
    HasPipe(line) /\ current_chunk # <<>> /\ ~AnyPipe(current_chunk)

KindChange(current_chunk, line) ==
    IF HasPipe(line)
    THEN current_chunk # <<>> /\ ~AnyPipe(current_chunk)
    ELSE Strip(MdText(line)) # <<>> /\ current_chunk # <<>> /\ AnyPipe(current_chunk)

\* One turn of the line walker; w is [header_stack, current_chunk, all_blocks, uuid]
\* and three history fields that the code does not keep: line_no, the number of
\* lines read so far, chunk_start, the number of the first line of current_chunk,
\* and first_lines, for each block of all_blocks the number of its first line
WalkLine(w, line) ==
    LET hm == HeaderMatch(MdText(line))
        st == [all_blocks |-> w.all_blocks, uuid |-> w.uuid]
        flushed == _flush_chunk(w.current_chunk, w.header_stack, st)
        flushed_first == IF Len(flushed.all_blocks) > Len(w.all_blocks)
                         THEN Append(w.first_lines, w.chunk_start) ELSE w.first_lines
        kind_change == KindChange(w.current_chunk, line)
    IN  IF hm.ok
        THEN [header_stack |-> PushHeader(w.header_stack, hm.level, hm.title),
              current_chunk |-> <<>>,
              all_blocks |-> flushed.all_blocks, uuid |-> flushed.uuid,
              line_no |-> w.line_no + 1, chunk_start |-> w.line_no + 2,
              first_lines |-> flushed_first]
        ELSE IF kind_change
        THEN [header_stack |-> w.header_stack, current_chunk |-> <<line>>,
              all_blocks |-> flushed.all_blocks, uuid |-> flushed.uuid,
              line_no |-> w.line_no + 1, chunk_start |-> w.line_no + 1,
              first_lines |-> flushed_first]
        ELSE [header_stack |-> w.header_stack, current_chunk |-> Append(w.current_chunk, line),
              all_blocks |-> w.all_blocks, uuid |-> w.uuid,
              line_no |-> w.line_no + 1,
              chunk_start |-> IF w.current_chunk = <<>> THEN w.line_no + 1 ELSE w.chunk_start,
              first_lines |-> w.first_lines]

RECURSIVE WalkLines(_, _)
WalkLines(w, lines) == IF lines = <<>> THEN w ELSE WalkLines(WalkLine(w, lines[1]), Tail(lines))

\* One document: walk its lines, then the final flush
WalkDocument(w, doc) ==
    LET e == WalkLines([w EXCEPT !.current_chunk = <<>>, !.chunk_start = w.line_no + 1], doc)
        f == _flush_chunk(e.current_chunk, e.header_stack,
                          [all_blocks |-> e.all_blocks, uuid |-> e.uuid])
    IN  [header_stack |-> e.header_stack, current_chunk |-> <<>>,
         all_blocks |-> f.all_blocks, uuid |-> f.uuid,
         line_no |-> e.line_no, chunk_start |-> e.line_no + 1,
         first_lines |-> IF Len(f.all_blocks) > Len(e.all_blocks)
                         THEN Append(e.first_lines, e.chunk_start) ELSE e.first_lines]

RECURSIVE WalkDocuments(_, _)
WalkDocuments(w, docs) ==
    IF docs = <<>> THEN w ELSE WalkDocuments(WalkDocument(w, docs[1]), Tail(docs))

\* all_blocks = [], header_stack = [] (lines 34-35), uuid values drawn before
WalkStart(uuid) ==
    [header_stack |-> <<>>, current_chunk |-> <<>>, all_blocks |-> <<>>, uuid |-> uuid,
     line_no |-> 0, chunk_start |-> 1, first_lines |-> <<>>]

\* parse_pdf when the PDF parses to docs and uuid values have been drawn before
parse_pdf(docs, uuid) ==
    LET w == WalkDocuments(WalkStart(uuid), docs)
    IN  [all_blocks |-> w.all_blocks, uuid |-> w.uuid, first_lines |-> w.first_lines]

(***************************************************************************)
(* SpecIngest: a document is segmented into blocks, then each table block  *)
(* is melted and each text block normalised, and the same document is      *)
(* ingested again with the same oracle answer.                             *)
(***************************************************************************)
MaxDocLines == 4
MaxParses == 2

StrHeading == <<"#", " ">> \o StrNotes
DocLines ==
    {TextLine(StrHeading), TextLine(StrBacklog), TextLine(<<>>),
     CellsLine(MkRow(<<>>, StrMetric, <<Str2023>>)), CellsLine(SepLine(2)),
     CellsLine(MkRow(<<>>, StrCash, <<<<"5">>>>))}

OracleAnswers ==
    {NoOracle,
     [ok |-> TRUE, facts |-> <<Fact(<<"a">>, NumValue(5), Some(<<"c">>), None, None, 95)>>]}

InitIngest ==
    /\ \E doc \in SeqsUpTo(DocLines, MaxDocLines) : documents = <<doc>>
    /\ oracle \in OracleAnswers
    /\ next_uuid = 0
    /\ parses = <<>>
    /\ synthesized = <<>>
    /\ text_block = NoTextBlock /\ extracted = <<>>
    /\ ParseIdle /\ MeltIdle /\ RunIdle /\ QueryIdle

\* The blocks of the last parse all have their rows
LastParseDone ==
    IF parses = <<>> THEN TRUE
    ELSE Len(synthesized[Len(parses)]) = Len(parses[Len(parses)])

\* parser.parse_pdf(pdf)
ParsePdf ==
    /\ Len(parses) < MaxParses
    /\ LastParseDone
    /\ LET r == parse_pdf(documents, next_uuid)
       IN  /\ parses' = Append(parses, r.all_blocks)
           /\ next_uuid' = r.uuid
    /\ synthesized' = Append(synthesized, <<>>)
    /\ UNCHANGED <<documents, parseVars, meltVars, textVars, runVars, queryVars>>

NextBlock == parses[Len(parses)][Len(synthesized[Len(parses)]) + 1]

\* melter.melt(block) for the next block of the last parse, a table block
MeltBlock ==
    /\ ~LastParseDone
    /\ NextBlock.block_type = "table"
    /\ synthesized' = [synthesized EXCEPT ![Len(parses)] = Append(@, melt(NextBlock, EntityId))]
    /\ UNCHANGED <<documents, next_uuid, parses, parseVars, meltVars, textVars, runVars, queryVars>>

\* text_synth.extract_facts(block) for the next block of the last parse, a text block
ExtractBlockFacts ==
    /\ ~LastParseDone
    /\ NextBlock.block_type = "text"
    /\ synthesized' = [synthesized EXCEPT ![Len(parses)] =
                          Append(@, extract_facts(NextBlock, EntityId, oracle))]
    /\ UNCHANGED <<documents, next_uuid, parses, parseVars, meltVars, textVars, runVars, queryVars>>

NextIngest == ParsePdf \/ MeltBlock \/ ExtractBlockFacts

SpecIngest == InitIngest /\ [][NextIngest]_vars

(***************************************************************************)
(* SpecSegment: one markdown document of headers of three levels, text     *)
(* lines, blank lines and table lines is segmented once.                   *)
(***************************************************************************)
MaxSegLines == 5

SegLines ==
    {TextLine(<<"#", " ", "A">>), TextLine(<<"#", "#", " ", "B">>),
     TextLine(<<"#", "#", "#", " ", "C">>),
     TextLine(<<"t">>), TextLine(<<>>), CellsLine(SepLine(1))}

InitSegment ==
    /\ \E doc \in SeqsUpTo(SegLines, MaxSegLines) : documents = <<doc>>
    /\ next_uuid = 0
    /\ parses = <<>>
    /\ synthesized = <<>>
    /\ ParseIdle /\ MeltIdle /\ TextIdle /\ RunIdle /\ QueryIdle

\* parser.parse_pdf(pdf), once
Segment ==
    /\ parses = <<>>
    /\ LET r == parse_pdf(documents, next_uuid)
       IN  /\ parses' = <<r.all_blocks>>
           /\ next_uuid' = r.uuid
    /\ UNCHANGED <<documents, synthesized, parseVars, meltVars, textVars, runVars, queryVars>>

NextSegment == Segment

SpecSegment == InitSegment /\ [][NextSegment]_vars

(***************************************************************************)
(* SchemaGenerator, ContextIndexer.index_blocks and IngestionPipeline.run  *)
(***************************************************************************)
\* SchemaGenerator.add_entity: entities is a dict keyed by canonical_id
add_entity(gen, entity) ==
    IF \E i \in 1..Len(gen.entities) : gen.entities[i].id = entity.canonical_id THEN gen
    ELSE [gen EXCEPT !.entities =
             Append(@, [id |-> entity.canonical_id, official_name |-> entity.official_name,
                        aliases |-> entity.aliases])]

\* self.metrics[name] = self.metrics.get(name, 0) + 1, the dict kept in insertion order
CountMetric(metrics, name) ==
    IF \E i \in 1..Len(metrics) : metrics[i].name = name
    THEN [i \in 1..Len(metrics) |->
             IF metrics[i].name = name THEN [metrics[i] EXCEPT !.count = @ + 1] ELSE metrics[i]]
    ELSE Append(metrics, [name |-> name, count |-> 1])

RECURSIVE add_rows(_, _)
add_rows(gen, rows) ==
    IF rows = <<>> THEN gen
    ELSE add_rows([gen EXCEPT !.metrics = CountMetric(@, rows[1].metric_name)], Tail(rows))

\* sorted(items, key=count, reverse=True): stable, so ties keep insertion order
RECURSIVE SortByCountDesc(_)
SortByCountDesc(metrics) ==
    IF metrics = <<>> THEN <<>>
    ELSE LET top == CHOOSE i \in 1..Len(metrics) :
                        /\ \A j \in 1..Len(metrics) : metrics[j].count <= metrics[i].count
                        /\ \A j \in 1..(i - 1) : metrics[j].count < metrics[i].count
         IN  <<metrics[top]>>
             \o SortByCountDesc([k \in 1..(Len(metrics) - 1) |->
                                    IF k < top THEN metrics[k] ELSE metrics[k + 1]])

TopMetrics == 500

\* SchemaGenerator.save: what it writes
SchemaData(gen) ==
    LET sorted_metrics == SortByCountDesc(gen.metrics)
    IN  [entities |-> gen.entities,
         metrics |-> [i \in 1..Min(TopMetrics, Len(sorted_metrics)) |-> sorted_metrics[i].name]]

\* ContextIndexer.index_blocks: the ids in the text collection afterwards
index_blocks(index, blocks) ==
    IF blocks = <<>> THEN index ELSE index \cup {blocks[i].id : i \in 1..Len(blocks)}

\* pd.read_parquet(...).to_dict("records"): a null value comes back as NaN
NaN == "nan"
ReadParquetRows(rows) ==
    [i \in 1..Len(rows) |-> IF rows[i].value = None THEN [rows[i] EXCEPT !.value = <<NaN>>]
                            ELSE rows[i]]

\* Lines 59-64 of run: pipeline.py never imports re, so the first turn of the
\* loop over blocks[:20] raises NameError
YearSearchRaises(blocks) == blocks # <<>>

\* Lines 85-88 of run: "$" in content or more than four digits
CountDigits(content) == Cardinality({i \in 1..Len(content) : content[i] \in Digits})
HasFinancialSubstance(content) == Contains(content, <<"$">>) \/ CountDigits(content) > 4

\* Lines 78-94 of run: the rows of the blocks, in block order
RECURSIVE SynthesizeBlocks(_, _, _)
SynthesizeBlocks(blocks, entity_id, resp) ==
    IF blocks = <<>> THEN <<>>
    ELSE (IF blocks[1].block_type = "table" THEN melt(blocks[1], entity_id)
          ELSE IF HasFinancialSubstance(blocks[1].content)
               THEN extract_facts(blocks[1], entity_id, resp)
               ELSE <<>>)
         \o SynthesizeBlocks(Tail(blocks), entity_id, resp)

(***************************************************************************)
(* SpecRun: IngestionPipeline.run called on one document, again and again  *)
(***************************************************************************)
MaxRuns == 2

EntityMeta == [canonical_id |-> EntityId, official_name |-> <<"T">>, aliases |-> <<>>]
\* resolve_entity returns the metadata or the oracle call raises
EntityAnswers == {[ok |-> TRUE, meta |-> EntityMeta], [ok |-> FALSE, meta |-> EntityMeta]}

InitRun ==
    /\ \E doc \in SeqsUpTo(DocLines, MaxDocLines) : documents = <<doc>>
    /\ oracle \in OracleAnswers
    /\ next_uuid = 0
    /\ RunIdle
    /\ parses = <<>> /\ synthesized = <<>>
    /\ text_block = NoTextBlock /\ extracted = <<>>
    /\ ParseIdle /\ MeltIdle /\ QueryIdle

\* run returns the rows of an existing ledger (lines 31-42).  In a record of
\* runs, saved is a history field: the schema summary that run wrote, if any.
RunSkipExtraction(all_ufl_rows, gen) ==
    /\ schema_gen' = gen
    /\ schema_file' = IF schema_file = <<>> THEN <<SchemaData(gen)>> ELSE schema_file
    /\ runs' = Append(runs, [raised |-> FALSE, blocks |-> <<>>, rows |-> all_ufl_rows,
                             saved |-> IF schema_file = <<>> THEN <<SchemaData(gen)>>
                                       ELSE <<>>])
    /\ UNCHANGED <<dom_file, ufl_file, content_index, next_uuid>>

\* run when the entity oracle raises or the year search does (lines 44-64)
RunRaises(blocks, gen) ==
    /\ schema_gen' = gen
    /\ runs' = Append(runs, [raised |-> TRUE, blocks |-> blocks, rows |-> <<>>,
                             saved |-> <<>>])
    /\ UNCHANGED <<content_index, ufl_file, schema_file>>

\* run past the year search (lines 66-107): index, block loop, parquet, schema
RunCompletes(blocks, gen2, all_ufl_rows) ==
    /\ content_index' = index_blocks(content_index, blocks)
    /\ ufl_file' = IF all_ufl_rows = <<>> THEN ufl_file ELSE <<all_ufl_rows>>
    /\ schema_gen' = gen2
    /\ schema_file' = <<SchemaData(gen2)>>
    /\ runs' = Append(runs, [raised |-> FALSE, blocks |-> blocks, rows |-> all_ufl_rows,
                             saved |-> <<SchemaData(gen2)>>])

\* run after structural parsing has given blocks (lines 53-107)
RunSynthesis(blocks, ent, gen, all_ufl_rows) ==
    /\ dom_file' = <<blocks>>
    /\ IF ~ent.ok THEN RunRaises(blocks, schema_gen)
       ELSE IF YearSearchRaises(blocks) THEN RunRaises(blocks, gen)
       ELSE RunCompletes(blocks, add_rows(gen, all_ufl_rows), all_ufl_rows)

\* run from structural parsing on (lines 44-107): p is what the parser returns
RunExtraction(p, ent) ==
    /\ next_uuid' = p.uuid
    /\ RunSynthesis(p.all_blocks, ent, add_entity(schema_gen, ent.meta),
                    SynthesizeBlocks(p.all_blocks, ent.meta.canonical_id, oracle))

\* self.schema_gen.add_rows(all_ufl_rows) when the schema summary is missing
AddRowsIfMissing(all_ufl_rows) ==
    IF schema_file = <<>> THEN add_rows(schema_gen, all_ufl_rows) ELSE schema_gen

\* IngestionPipeline.run(pdf_path, skip_parsing)
Run ==
    /\ Len(runs) < MaxRuns
    /\ \E skip_parsing \in BOOLEAN, ent \in EntityAnswers :
          IF skip_parsing /\ ufl_file # <<>>
          THEN RunSkipExtraction(ReadParquetRows(ufl_file[1]),
                                 AddRowsIfMissing(ReadParquetRows(ufl_file[1])))
          ELSE RunExtraction(IF skip_parsing /\ dom_file # <<>>
                             THEN [all_blocks |-> dom_file[1], uuid |-> next_uuid]
                             ELSE parse_pdf(documents, next_uuid), ent)
    /\ UNCHANGED <<documents, oracle, text_block, extracted, parses, synthesized,
                   parseVars, meltVars, queryVars>>

NextRun == Run

SpecRun == InitRun /\ [][NextRun]_vars

(***************************************************************************)
(* SpecRunStored: run called where the ledger of the document may already  *)
(* be on disk, which is the case lines 31-42 of run are written for        *)
(***************************************************************************)
\* Ledgers that an earlier ingestion of the file wrote: the rows of the facts of
\* one text block
StoredBlock == [id |-> BlockId2, section_path |-> <<StrNotes>>, content |-> StrBacklog]
StoredLedgers ==
    {FactRows(StoredBlock, EntityId, facts) :
        facts \in {<<Fact(<<"a">>, NumValue(5), Some(<<"c">>), None, None, 95)>>,
                   <<Fact(<<"a", "_", "b">>, NumValue(5), Some(<<"c">>), None, None, 95),
                     Fact(<<"a">>, NumValue(5), Some(<<"c">>), None, None, 95),
                     Fact(<<"a", "_", "b">>, NumValue(5), None, None, None, 95)>>}}

InitRunStored ==
    /\ \E doc \in SeqsUpTo(DocLines, MaxDocLines) : documents = <<doc>>
    /\ oracle \in OracleAnswers
    /\ ufl_file \in {<<>>} \cup {<<ledger>> : ledger \in StoredLedgers}
    /\ next_uuid = 0
    /\ dom_file = <<>> /\ content_index = {}
    /\ schema_gen = NoSchema /\ schema_file = <<>> /\ runs = <<>>
    /\ parses = <<>> /\ synthesized = <<>>
    /\ text_block = NoTextBlock /\ extracted = <<>>
    /\ ParseIdle /\ MeltIdle /\ QueryIdle

SpecRunStored == InitRunStored /\ [][NextRun]_vars


(***************************************************************************)
(* DualRetriever                                                           *)
(*                                                                         *)
(* The DataFrame self.df is [columns, rows]: pd.DataFrame() has no columns *)
(* and no rows, a ledger read from parquet has the UFLRow columns.  The    *)
(* text collection is a set of blocks [id, content, block_type,            *)
(* section_path].  A semantic search ranks the whole collection by         *)
(* distance to the query text and returns the first n_results of it; the   *)
(* ranking is an input of the model (an order of the collection).          *)
(***************************************************************************)
\* RetrievalPlan and UFLFilter of venra.models, as the retriever, the navigator
\* and the tests use them
UFLFilter(entity_ids, metric_keywords, years) ==
    [entity_ids |-> entity_ids, metric_keywords |-> metric_keywords, years |-> years]

RetrievalPlan(strategy, ufl_query, vector_hypothesis, vector_keywords, reasoning) ==
    [strategy |-> strategy, ufl_query |-> ufl_query,
     vector_hypothesis |-> vector_hypothesis, vector_keywords |-> vector_keywords,
     reasoning |-> reasoning]

\* All orders of a finite set
Rankings(S) ==
    {r \in [1..Cardinality(S) -> S] : \A i, j \in 1..Cardinality(S) : r[i] = r[j] => i = j}

\* _query_vector(text, k): the first k blocks of the ranking of the query text
_query_vector_All(ranking, k) == ranking

_query_vector(ranking, k) == [i \in 1..Min(k, Len(ranking)) |-> ranking[i]]

\* _fetch_chunks_by_ids([cid]): the block of the collection with that id, if any
_fetch_chunks_by_ids(collection, cid) ==
    IF \E b \in collection : b.id = cid
    THEN <<CHOOSE b \in collection : b.id = cid>> ELSE <<>>

\* d[c.id] = c on a dict kept in insertion order
PutChunk_Append(chunk_id_map, c) == Append(chunk_id_map, c)

PutChunk(chunk_id_map, c) ==
    IF \E i \in 1..Len(chunk_id_map) : chunk_id_map[i].id = c.id
    THEN [i \in 1..Len(chunk_id_map) |->
             IF chunk_id_map[i].id = c.id THEN c ELSE chunk_id_map[i]]
    ELSE Append(chunk_id_map, c)

RECURSIVE PutChunks(_, _)
PutChunks(chunk_id_map, chunks) ==
    IF chunks = <<>> THEN chunk_id_map
    ELSE PutChunks(PutChunk(chunk_id_map, chunks[1]), Tail(chunks))

\* if c.id not in chunk_id_map: chunk_id_map[c.id] = c, for each c
RECURSIVE AddNewChunks(_, _)
AddNewChunks(chunk_id_map, chunks) ==
    IF chunks = <<>> THEN chunk_id_map
    ELSE AddNewChunks(IF \E i \in 1..Len(chunk_id_map) : chunk_id_map[i].id = chunks[1].id
                      THEN chunk_id_map ELSE Append(chunk_id_map, chunks[1]),
                      Tail(chunks))

PutRow(row_id_map, r) ==
    IF \E i \in 1..Len(row_id_map) : row_id_map[i].row_id = r.row_id
    THEN [i \in 1..Len(row_id_map) |->
             IF row_id_map[i].row_id = r.row_id THEN r ELSE row_id_map[i]]
    ELSE Append(row_id_map, r)

RECURSIVE PutRows(_, _)
PutRows(row_id_map, rows) ==
    IF rows = <<>> THEN row_id_map ELSE PutRows(PutRow(row_id_map, rows[1]), Tail(rows))

RECURSIVE AddNewRows(_, _)
AddNewRows(row_id_map, rows) ==
    IF rows = <<>> THEN row_id_map
    ELSE AddNewRows(IF \E i \in 1..Len(row_id_map) : row_id_map[i].row_id = rows[1].row_id
                    THEN row_id_map ELSE Append(row_id_map, rows[1]),
                    Tail(rows))

InList(x, list) == \E i \in 1..Len(list) : list[i] = x

\* _query_ufl: the rows of the frame that pass the entity, year and metric masks
_query_ufl(frame, filter_spec) ==
    IF frame.rows = <<>> THEN <<>>
    ELSE LET exact(r) == InList(r.metric_name, filter_spec.metric_keywords)
             fuzzy(r) == \E i \in 1..Len(filter_spec.metric_keywords) :
                             Contains(Lower(r.metric_name), Lower(filter_spec.metric_keywords[i]))
             any_exact == \E i \in 1..Len(frame.rows) : exact(frame.rows[i])
             mask(r) ==
                 /\ filter_spec.entity_ids # <<>> => InList(r.entity_id, filter_spec.entity_ids)
                 /\ filter_spec.years # <<>> =>
                        \E i \in 1..Len(filter_spec.years) : Contains(r.period, filter_spec.years[i])
                 /\ filter_spec.metric_keywords # <<>> =>
                        IF any_exact THEN exact(r) ELSE fuzzy(r)
         IN  SelectSeq(frame.rows, mask)

\* list(set([r.related_entity_id for r in rows if r.related_entity_id]))
RelatedEntities(rows) ==
    {rows[i].related_entity_id[1] : i \in {j \in 1..Len(rows) :
        rows[j].related_entity_id # None /\ rows[j].related_entity_id[1] # <<>>}}

\* Expansion A (lines 72-77): entity_rank[e] is the ranking of "Information about e"
ExpandRelated_Skip(chunk_id_map, related_entities, entity_rank) == chunk_id_map

RECURSIVE ExpandRelated(_, _, _)
ExpandRelated(chunk_id_map, related_entities, entity_rank) ==
    IF related_entities = <<>> THEN chunk_id_map
    ELSE ExpandRelated(AddNewChunks(chunk_id_map,
                                    _query_vector(entity_rank[related_entities[1]], 2)),
                       Tail(related_entities), entity_rank)

\* Counter([r.source_chunk_id for r in rows]).most_common()
RECURSIVE SourceCounts(_, _)
SourceCounts(counts, rows) ==
    IF rows = <<>> THEN counts
    ELSE SourceCounts(CountMetric(counts, rows[1].source_chunk_id), Tail(rows))

\* Expansion B (lines 81-89): the three most cited source blocks not yet present
RECURSIVE FetchSources(_, _, _)
FetchSources(chunk_id_map, cids, collection) ==
    IF cids = <<>> THEN chunk_id_map
    ELSE FetchSources(PutChunks(chunk_id_map, _fetch_chunks_by_ids(collection, cids[1])),
                      Tail(cids), collection)

ExpandSources(chunk_id_map, selected_ufl_rows, collection) ==
    LET most_common == SortByCountDesc(SourceCounts(<<>>, selected_ufl_rows))
        has(cid) == \E i \in 1..Len(chunk_id_map) : chunk_id_map[i].id = cid
        absent(m) == ~has(m.name)
        new_candidate_ids == SelectSeq(most_common, absent)
    IN  FetchSources(chunk_id_map,
                     [i \in 1..Min(3, Len(new_candidate_ids)) |-> new_candidate_ids[i].name],
                     collection)

\* Expansion C (lines 93-99): every row of the frame whose source block is present.
\* self.df['source_chunk_id'] raises KeyError on a frame without columns.
ExpandRowsRaises(frame, chunk_id_map, include_all_ufl_for_chunks) ==
    include_all_ufl_for_chunks /\ chunk_id_map # <<>> /\ ~frame.columns

ExpandRows_Replace(frame, chunk_id_map, row_id_map, include_all_ufl_for_chunks) ==
    IF include_all_ufl_for_chunks /\ chunk_id_map # <<>>
    THEN LET cited(r) == \E i \in 1..Len(chunk_id_map) : chunk_id_map[i].id = r.source_chunk_id
         IN  PutRows(<<>>, SelectSeq(frame.rows, cited))
    ELSE row_id_map

ExpandRows(frame, chunk_id_map, row_id_map, include_all_ufl_for_chunks) ==
    IF include_all_ufl_for_chunks /\ chunk_id_map # <<>>
    THEN LET cited(r) == \E i \in 1..Len(chunk_id_map) : chunk_id_map[i].id = r.source_chunk_id
         IN  AddNewRows(row_id_map, SelectSeq(frame.rows, cited))
    ELSE row_id_map

\* retrieve after the direct searches (lines 61-114): the three expansions and
\* the result.  history is a history field: the candidates of the direct
\* searches, what each relational-expansion search returned, and the running
\* maps after each phase.
RetrieveExpand(frame, collection, pl, args, selected_chunks, selected_ufl_rows, related_entities, entity_rank) ==
    LET direct == PutChunks(<<>>, selected_chunks)
        after_a == ExpandRelated(direct, related_entities, entity_rank)
        chunk_id_map == IF args.include_all_chunks_for_ufl /\ selected_ufl_rows # <<>>
                        THEN ExpandSources(after_a, selected_ufl_rows, collection)
                        ELSE after_a
        entity_chunks == [i \in 1..Len(related_entities) |->
                             [entity |-> related_entities[i],
                              chunks |-> _query_vector(entity_rank[related_entities[i]], 2)]]
        history == [selected_chunks |-> selected_chunks, selected_ufl_rows |-> selected_ufl_rows,
                    direct |-> direct, after_a |-> after_a, after_b |-> chunk_id_map,
                    direct_rows |-> PutRows(<<>>, selected_ufl_rows)]
    IN  IF ExpandRowsRaises(frame, chunk_id_map, args.include_all_ufl_for_chunks)
        THEN [raised |-> TRUE, ufl_rows |-> <<>>, text_chunks |-> <<>>,
              meta |-> [ufl_count |-> 0, text_count |-> 0, vector_keywords |-> <<>>],
              entity_chunks |-> entity_chunks, history |-> history]
        ELSE LET final_rows == ExpandRows(frame, chunk_id_map, PutRows(<<>>, selected_ufl_rows),
                                          args.include_all_ufl_for_chunks)
             IN  [raised |-> FALSE, ufl_rows |-> final_rows, text_chunks |-> chunk_id_map,
                  meta |-> [ufl_count |-> Len(final_rows), text_count |-> Len(chunk_id_map),
                            vector_keywords |-> pl.vector_keywords],
                  entity_chunks |-> entity_chunks, history |-> history]

\* Lines 65: the rows of the direct ledger query
SelectedRows(frame, pl) ==
    IF pl.ufl_query # None THEN _query_ufl(frame, pl.ufl_query[1]) ELSE <<>>

Max(a, b) == IF a > b THEN a ELSE b

\* Lines 49-59: the hypothesis search and the keyword search
SelectedChunks(pl, k, hypothesis_rank, keyword_rank) ==
    _query_vector(hypothesis_rank, k)
    \o (IF pl.vector_keywords # <<>> THEN _query_vector(keyword_rank, Max(k, 5)) ELSE <<>>)

\* DualRetriever.retrieve(plan, k, include_all_chunks_for_ufl, include_all_ufl_for_chunks)
retrieve(frame, collection, pl, args, hypothesis_rank, keyword_rank, related_entities, entity_rank) ==
    RetrieveExpand(frame, collection, pl, args,
                   SelectedChunks(pl, args.k, hypothesis_rank, keyword_rank),
                   SelectedRows(frame, pl), related_entities, entity_rank)

(***************************************************************************)
(* SpecRetrieve: retrieve called once on a ledger (or none), a text        *)
(* collection and a plan                                                   *)
(***************************************************************************)
StrBoeing == <<"B", "o", "e", "i", "n", "g">>
StrNetSales == <<"N", "e", "t", " ", "S", "a", "l", "e", "s">>
StrAcquisition == <<"A", "c", "q", "u", "i", "s", "i", "t", "i", "o", "n">>
StrSales == <<"s", "a", "l", "e", "s">>

LedgerRow(row_id, metric_name, period, source_chunk_id, related_entity_id) ==
    [row_id |-> row_id, entity_id |-> EntityId, metric_name |-> metric_name,
     value |-> Some(5), unit |-> <<"U", "S", "D">>, scale_factor |-> 1, period |-> period,
     doc_section |-> StrNotes, source_chunk_id |-> source_chunk_id,
     nuance_note |-> None, confidence |-> 95, related_entity_id |-> related_entity_id]

IndexedBlock(id, content, section_path) ==
    [id |-> id, content |-> content, block_type |-> "text", section_path |-> section_path]

SampleBlocks ==
    {IndexedBlock(<<"c", "1">>, <<"N", "e", "t", " ", "s", "a", "l", "e", "s", " ", "r", "o", "s", "e">>, <<StrNotes>>),
     IndexedBlock(<<"c", "2">>, <<"B", "o", "e", "i", "n", "g", " ", "d", "e", "a", "l">>, <<>>),
     IndexedBlock(<<"c", "3">>, <<"t">>, <<StrNotes, StrCash>>)}

Row1 == LedgerRow(<<"r", "1">>, StrNetSales, Str2023, <<"c", "1">>, None)
Row2 == LedgerRow(<<"r", "2">>, StrAcquisition, Str2023, <<"c", "2">>, Some(StrBoeing))
Row3 == LedgerRow(<<"r", "3">>, StrAcquisition, Str2022, <<"c", "4">>, Some(StrBoeing))
\* Two rows of one block that differ in the related entity only have one row_id
Row6 == LedgerRow(<<"r", "6">>, StrAcquisition, Str2023, <<"c", "2">>, None)
Row7 == LedgerRow(<<"r", "6">>, StrAcquisition, Str2023, <<"c", "2">>, Some(StrBoeing))
Row4 == LedgerRow(<<"r", "4">>, StrNetSales, Str2022, <<"c", "1">>, None)
Row5 == LedgerRow(<<"r", "5">>, StrNetSales \o <<" ", "g", "r", "o", "w", "t", "h">>, Str2023, <<"c", "3">>, None)

NoFrame == [columns |-> FALSE, rows |-> <<>>]
Frame(rows) == [columns |-> TRUE, rows |-> rows]
SampleFrames ==
    {NoFrame, Frame(<<Row1>>), Frame(<<Row1, Row2>>), Frame(<<Row2, Row3>>),
     Frame(<<Row1, Row2, Row3, Row3>>), Frame(<<Row4, Row5>>),
     Frame(<<Row6, Row7>>)}

SamplePlans ==
    {RetrievalPlan("TEXT_ONLY", None, <<"s", "a", "l", "e", "s">>, <<>>, <<>>),
     RetrievalPlan("HYBRID", Some(UFLFilter(<<EntityId>>, <<StrNetSales>>, <<Str2023>>)),
                   <<"s", "a", "l", "e", "s">>, <<StrSales>>, <<>>),
     RetrievalPlan("HYBRID", Some(UFLFilter(<<>>, <<StrAcquisition>>, <<Str2023>>)),
                   <<"d", "e", "a", "l">>, <<>>, <<>>),
     RetrievalPlan("UFL_ONLY", Some(UFLFilter(<<>>, <<StrSales>>, <<>>)), <<"d", "e", "a", "l">>, <<>>, <<>>),
     RetrievalPlan("UFL_ONLY", Some(UFLFilter(<<>>, <<>>, <<>>)), <<"d", "e", "a", "l">>, <<StrSales>>, <<>>)}

\* The list from its r-th entry on, followed by its first r - 1 entries
Rotate(list, r) == SubSeq(list, r, Len(list)) \o SubSeq(list, 1, r - 1)
Rotations(list) == {Rotate(list, r) : r \in 1..Len(list)}
Reversed(list) == [i \in 1..Len(list) |-> list[Len(list) + 1 - i]]

\* A collection of twelve blocks, and a ledger of 2023 whose rows cite w9 three
\* times, w10 and w11 twice, w12 and w2 once; the row that cites w2 relates to
\* Boeing, and a row of 2022 cites w1 and relates to Airbus
WideBlocks == [i \in 1..12 |-> IndexedBlock(<<"w">> \o NatStr(i), <<"w">>, <<>>)]
WideCollection == {WideBlocks[i] : i \in 1..Len(WideBlocks)}
StrAirbus == <<"A", "i", "r", "b", "u", "s">>
WideRow(n, source, period, related) ==
    LedgerRow(<<"s">> \o NatStr(n), StrNetSales, period, <<"w">> \o NatStr(source), related)
WideFrame ==
    Frame(<<WideRow(1, 12, Str2023, None), WideRow(2, 9, Str2023, None),
            WideRow(3, 10, Str2023, None), WideRow(4, 9, Str2023, None),
            WideRow(5, 11, Str2023, None), WideRow(6, 10, Str2023, None),
            WideRow(7, 9, Str2023, None), WideRow(8, 11, Str2023, None),
            WideRow(9, 2, Str2023, Some(StrBoeing)), WideRow(10, 1, Str2022, Some(StrAirbus))>>)
WidePlans ==
    {RetrievalPlan("HYBRID", Some(UFLFilter(<<>>, <<>>, <<Str2023>>)), <<"w">>, kw, <<>>) :
        kw \in {<<>>, <<StrSales>>}}

\* A store that lacks a block the ledger cites three times: the ledger file and
\* the store are opened independently of each other (lines 16-36)
WideCollectionLess == WideCollection \ {WideBlocks[9]}

\* The answers a search can give: any order of a small collection, any rotation
\* of a wide one
SearchRankings(collection) ==
    IF collection \in {WideCollection, WideCollectionLess}
    THEN LET held(b) == b \in collection IN Rotations(SelectSeq(WideBlocks, held))
    ELSE Rankings(collection)

RetrieveArgs ==
    [k : {1, 4}, include_all_chunks_for_ufl : BOOLEAN, include_all_ufl_for_chunks : BOOLEAN]

InitRetrieve ==
    /\ \/ /\ ufl_df \in SampleFrames
          /\ text_collection \in SUBSET SampleBlocks
          /\ plan \in SamplePlans
       \/ /\ ufl_df = WideFrame
          /\ text_collection \in {WideCollection, WideCollectionLess}
          /\ plan \in WidePlans
    /\ retrieve_args \in RetrieveArgs
    /\ results = <<>>
    /\ instructions = <<>> /\ full_context = <<>> /\ final_chunks = <<>>
    /\ ParseIdle /\ MeltIdle /\ TextIdle /\ IngestIdle /\ RunIdle /\ AskIdle

\* retriever.retrieve(plan, k, ...), with every answer the searches can give
Retrieve ==
    /\ results = <<>>
    /\ \E hypothesis_rank \in SearchRankings(text_collection),
          keyword_rank \in SearchRankings(text_collection),
          related_entities \in Rankings(RelatedEntities(SelectedRows(ufl_df, plan))),
          entity_rank \in [RelatedEntities(SelectedRows(ufl_df, plan))
                              -> SearchRankings(text_collection)] :
          results' = <<retrieve(ufl_df, text_collection, plan, retrieve_args, hypothesis_rank,
                                keyword_rank, related_entities, entity_rank)>>
    /\ UNCHANGED <<ufl_df, text_collection, plan, retrieve_args, instructions, full_context,
                   final_chunks,
                   parseVars, meltVars, textVars, ingestVars, runVars, askVars>>

NextRetrieve == Retrieve

SpecRetrieve == InitRetrieve /\ [][NextRetrieve]_vars

(***************************************************************************)
(* ContextAssembler                                                        *)
(*                                                                         *)
(* The context is a Python str: a sequence of characters with "\n" between *)
(* lines.  to_markdown is modelled as a pipe table without column padding: *)
(* a header line, a dash line and one line per row.                        *)
(***************************************************************************)
StrFactHeader == <<"#", " ", "V", "E", "R", "I", "F", "I", "A", "B", "L", "E", " ", "F", "A", "C", "T", " ", "L", "E", "D", "G", "E", "R", " ", "(", "U", "F", "L", ")", " ", "R", "O", "W", "S">>
StrTextHeader == <<"#", " ", "S", "O", "U", "R", "C", "E", " ", "T", "E", "X", "T", " ", "C", "H", "U", "N", "K", "S">>
StrInstructionsHeader == <<"#", " ", "I", "N", "S", "T", "R", "U", "C", "T", "I", "O", "N", "S", " ", "F", "O", "R", " ", "R", "E", "A", "S", "O", "N", "I", "N", "G", ":">>
StrNoFacts == <<"N", "o", " ", "s", "t", "r", "u", "c", "t", "u", "r", "e", "d", " ", "f", "a", "c", "t", "s", " ", "f", "o", "u", "n", "d", ".">>
StrNoText == <<"N", "o", " ", "s", "o", "u", "r", "c", "e", " ", "t", "e", "x", "t", " ", "a", "v", "a", "i", "l", "a", "b", "l", "e", ".">>

\* _deduplicate_rows: the first row of every row_id, in order
RECURSIVE _deduplicate_rows(_)
_deduplicate_rows(rows) ==
    IF rows = <<>> THEN <<>>
    ELSE LET before == _deduplicate_rows(Slice(rows, 1, Len(rows) - 1))
             r == rows[Len(rows)]
         IN  IF \E i \in 1..Len(before) : before[i].row_id = r.row_id
             THEN before ELSE Append(before, r)

\* _deduplicate_chunks: the first block of every id, in order
RECURSIVE _deduplicate_chunks(_)
_deduplicate_chunks(chunks) ==
    IF chunks = <<>> THEN <<>>
    ELSE LET before == _deduplicate_chunks(Slice(chunks, 1, Len(chunks) - 1))
             c == chunks[Len(chunks)]
         IN  IF \E i \in 1..Len(before) : before[i].id = c.id
             THEN before ELSE Append(before, c)

\* Lines 56-68: +5 for the source of a row, +1 per keyword in the content
ChunkScore_KeywordsOnly(chunk, keywords, ufl_rows) ==
    Cardinality({i \in 1..Len(keywords) : Contains(Lower(chunk.content), Lower(keywords[i]))})

ChunkScore(chunk, keywords, ufl_rows) ==
    (IF \E i \in 1..Len(ufl_rows) :
            ufl_rows[i].source_chunk_id # <<>> /\ ufl_rows[i].source_chunk_id = chunk.id
     THEN 5 ELSE 0)
    + Cardinality({i \in 1..Len(keywords) : Contains(Lower(chunk.content), Lower(keywords[i]))})

ChunkLimit == 5

\* _rank_and_filter_chunks(chunks, keywords, ufl_rows, limit=5)
_rank_and_filter_chunks(chunks, keywords, ufl_rows, limit) ==
    IF Len(chunks) <= limit THEN chunks
    ELSE LET scored == SortByCountDesc([i \in 1..Len(chunks) |->
                           [name |-> chunks[i],
                            count |-> ChunkScore(chunks[i], keywords, ufl_rows)]])
         IN  [i \in 1..Min(limit, Len(scored)) |-> scored[i].name]

\* One line of the pipe table
TableLine(cells) == <<"|", " ">> \o Join(cells, <<" ", "|", " ">>) \o <<" ", "|">>

\* str of a row_id: an md5 digest is shown by its seed
IdStr(id) == IF id # <<>> /\ id[1] = "md5" THEN id[2] ELSE id

\* _format_ufl_table
_format_ufl_table(rows) ==
    IF rows = <<>> THEN StrNoFacts
    ELSE Join(<<TableLine(<<<<"r", "o", "w", "_", "i", "d">>, <<"m", "e", "t", "r", "i", "c", "_", "n", "a", "m", "e">>, <<"v", "a", "l", "u", "e">>, <<"u", "n", "i", "t">>, <<"p", "e", "r", "i", "o", "d">>,
                            <<"n", "u", "a", "n", "c", "e", "_", "n", "o", "t", "e">>, <<"s", "o", "u", "r", "c", "e", "_", "c", "h", "u", "n", "k", "_", "i", "d">>>>),
                TableLine([i \in 1..7 |-> <<"-", "-", "-">>])>>
              \o [i \in 1..Len(rows) |->
                     TableLine(<<IdStr(rows[i].row_id), rows[i].metric_name,
                                 IF rows[i].value = None THEN <<"n", "a", "n">>
                                 ELSE NatStr(rows[i].value[1]),
                                 rows[i].unit, rows[i].period,
                                 IF rows[i].nuance_note = None THEN <<>>
                                 ELSE rows[i].nuance_note[1],
                                 rows[i].source_chunk_id>>)],
              <<NL>>)

\* Lines 120-125: the labelled section of one block
BlockStr(c) ==
    <<"-", "-", "-", " ", "C", "H", "U", "N", "K", "_", "I", "D", ":", " ">> \o c.id \o <<" ", "-", "-", "-">> \o <<NL>>
    \o <<"S", "E", "C", "T", "I", "O", "N", ":", " ">>
    \o (IF c.section_path # <<>> THEN Join(c.section_path, ArrowSep) ELSE <<"U", "n", "k", "n", "o", "w", "n">>)
    \o <<NL>> \o <<"C", "O", "N", "T", "E", "N", "T", ":">> \o <<NL>> \o c.content \o <<NL>>

\* _format_text_blocks
_format_text_blocks(chunks) ==
    IF chunks = <<>> THEN StrNoText
    ELSE Join([i \in 1..Len(chunks) |-> BlockStr(chunks[i])], <<NL>>)

\* Lines 37-46: the final assembly
FullContext_NoTextHeader(ufl_context, text_context, instr) ==
    <<NL>> \o StrFactHeader \o <<NL>> \o ufl_context \o <<NL, NL>>
    \o text_context \o <<NL, NL>>
    \o StrInstructionsHeader \o <<NL>> \o instr \o <<NL>>

FullContext(ufl_context, text_context, instr) ==
    <<NL>> \o StrFactHeader \o <<NL>> \o ufl_context \o <<NL, NL>>
    \o StrTextHeader \o <<NL>> \o text_context \o <<NL, NL>>
    \o StrInstructionsHeader \o <<NL>> \o instr \o <<NL>>

\* Lines 24-28: the blocks assemble formats
FinalChunks(retrieval_results) ==
    _rank_and_filter_chunks(_deduplicate_chunks(retrieval_results.text_chunks),
                            retrieval_results.meta.vector_keywords,
                            _deduplicate_rows(retrieval_results.ufl_rows), ChunkLimit)

\* ContextAssembler.assemble(retrieval_results), the instructions prompt given
AssembleRows(unique_rows, unique_chunks, keywords, instr) ==
    FullContext(_format_ufl_table(unique_rows),
                _format_text_blocks(_rank_and_filter_chunks(unique_chunks, keywords,
                                                            unique_rows, ChunkLimit)),
                instr)

assemble(retrieval_results, instr) ==
    AssembleRows(_deduplicate_rows(retrieval_results.ufl_rows),
                 _deduplicate_chunks(retrieval_results.text_chunks),
                 retrieval_results.meta.vector_keywords, instr)

(***************************************************************************)
(* SpecAssemble: assemble applied to a retrieval result                    *)
(***************************************************************************)
MaxResultRows == 2
MaxResultChunks == 2

MoreBlocks ==
    <<IndexedBlock(<<"c", "4">>, <<"s", "a", "l", "e", "s">>, <<>>), IndexedBlock(<<"c", "5">>, <<"S", "a", "l", "e", "s", " ", "o", "f", " ", "t">>, <<>>),
      IndexedBlock(<<"c", "6">>, <<"x">>, <<StrNotes>>), IndexedBlock(<<"c", "1">>, <<"N", "e", "t", " ", "s", "a", "l", "e", "s", " ", "r", "o", "s", "e">>, <<StrNotes>>),
      IndexedBlock(<<"c", "2">>, <<"B", "o", "e", "i", "n", "g", " ", "d", "e", "a", "l">>, <<>>), IndexedBlock(<<"c", "3">>, <<"t">>, <<StrNotes, StrCash>>)>>

EvenMoreBlocks == Append(MoreBlocks, IndexedBlock(<<"c", "7">>, <<"T", " ", "s", "a", "l", "e", "s">>, <<>>))

\* Block lists up to the bound, and lists of more blocks than the limit keeps
ResultChunkLists ==
    SeqsUpTo(SampleBlocks, MaxResultChunks)
    \cup {MoreBlocks \o MoreBlocks, Tail(MoreBlocks)}
    \cup Rotations(MoreBlocks) \cup Rotations(Reversed(MoreBlocks))
    \cup Rotations(EvenMoreBlocks)

Instructions == {<<>>, <<"C", "i", "t", "e", " ", "i", "d", "s", ".">>}

RetrievalResult(ufl_rows, text_chunks, vector_keywords) ==
    [raised |-> FALSE, ufl_rows |-> ufl_rows, text_chunks |-> text_chunks,
     meta |-> [ufl_count |-> Len(ufl_rows), text_count |-> Len(text_chunks),
               vector_keywords |-> vector_keywords],
     entity_chunks |-> <<>>]

InitAssemble ==
    /\ \E rows \in SeqsUpTo({Row1, Row2, Row3}, MaxResultRows),
          chunks \in ResultChunkLists,
          keywords \in {<<>>, <<StrSales, <<"T">>>>} :
          results = <<RetrievalResult(rows, chunks, keywords)>>
    /\ instructions \in Instructions
    /\ full_context = <<>> /\ final_chunks = <<>>
    /\ ufl_df = <<>> /\ text_collection = {} /\ plan = <<>> /\ retrieve_args = <<>>
    /\ ParseIdle /\ MeltIdle /\ TextIdle /\ IngestIdle /\ RunIdle /\ AskIdle

\* assembler.assemble(results)
Assemble ==
    /\ full_context = <<>>
    /\ full_context' = <<assemble(results[1], instructions)>>
    /\ final_chunks' = <<FinalChunks(results[1])>>
    /\ UNCHANGED <<ufl_df, text_collection, plan, retrieve_args, results, instructions,
                   parseVars, meltVars, textVars, ingestVars, runVars, askVars>>

NextAssemble == Assemble

SpecAssemble == InitAssemble /\ [][NextAssemble]_vars

(***************************************************************************)
(* Navigator.navigate and ReasoningAgent.answer                            *)
(*                                                                         *)
(* A call to an oracle or to the executor is two steps: the call is made,  *)
(* then it returns, raises or (where the client sets one) times out.       *)
(***************************************************************************)
\* s.split(): the maximal runs of non-blank characters
RECURSIVE SplitFrom(_, _, _)
SplitFrom(s, i, start) ==
    IF i > Len(s)
    THEN IF start = 0 THEN <<>> ELSE <<SubSeq(s, start, Len(s))>>
    ELSE IF IsSpace(s[i])
    THEN IF start = 0 THEN SplitFrom(s, i + 1, 0)
         ELSE <<SubSeq(s, start, i - 1)>> \o SplitFrom(s, i + 1, 0)
    ELSE SplitFrom(s, i + 1, IF start = 0 THEN i ELSE start)

PySplit(s) == SplitFrom(s, 1, 0)

\* The strategy of a RetrievalPlan built without one
DefaultStrategy == "TEXT_ONLY"

\* query.split()[:5]
FallbackKeywords_AllTokens(q) == PySplit(q)

FallbackKeywords(q) == [i \in 1..Min(5, Len(PySplit(q))) |-> PySplit(q)[i]]

\* Lines 83-88: the plan navigate returns when the oracle call raised e
FallbackPlan(q, e) ==
    RetrievalPlan(DefaultStrategy, None, q, FallbackKeywords(q),
                  <<"N", "a", "v", "i", "g", "a", "t", "i", "o", "n", " ", "e", "r", "r", "o", "r", ":", " ">> \o e \o <<".", " ", "F", "a", "l", "l", "i", "n", "g", " ", "b", "a", "c", "k", " ", "t", "o", " ", "d", "i", "r", "e", "c", "t", " ", "q", "u", "e", "r", "y", " ", "s", "e", "a", "r", "c", "h", ".">>)

\* The executor's exec(code) on the programs of the model: what the program does
StrPrintOne == <<"p", "r", "i", "n", "t", "(", "1", ")">>
StrDivideByZero == <<"1", "/", "0">>
StrSystemExit == <<"r", "a", "i", "s", "e", " ", "S", "y", "s", "t", "e", "m", "E", "x", "i", "t">>
StrLoopForever == <<"w", "h", "i", "l", "e", " ", "T", "r", "u", "e", ":", " ", "p", "a", "s", "s">>

\* exec(code): "ok" with the printed output, "exception" for an Exception,
\* "base_exception" for one that is no Exception, "hangs" for no return
Exec(code) ==
    IF code = StrPrintOne THEN [outcome |-> "ok", output |-> <<"1">>]
    ELSE IF code = StrDivideByZero THEN [outcome |-> "exception", output |-> <<>>]
    ELSE IF code = StrSystemExit THEN [outcome |-> "base_exception", output |-> <<>>]
    ELSE [outcome |-> "hangs", output |-> <<>>]

\* except Exception (executor.py:23): what execute catches
ExecuteCatches_Nothing(outcome) == FALSE

ExecuteCatches(outcome) == outcome = "exception"

\* AgentReasoning
AgentReasoning(requires_math, python_code) ==
    [plan |-> <<"p">>, requires_math |-> requires_math, python_code |-> python_code]

\* if reasoning.requires_math and reasoning.python_code (agent.py:90)
RunsCode_Always(reasoning) == TRUE

RunsCode(reasoning) ==
    /\ reasoning.requires_math
    /\ reasoning.python_code # None
    /\ reasoning.python_code[1] # <<>>

(***************************************************************************)
(* SpecQuery: navigate is called on a question, then answer is called.     *)
(* SpecQueryFair adds what the code guarantees: its own steps are taken,   *)
(* and a call through the OpenAI client ends by the client's timeout; the  *)
(* requests.post of pass 1 and exec have no timeout, and no oracle is      *)
(* bound to answer.                                                        *)
(***************************************************************************)
SampleQueries ==
    {<<>>, <<"s", "a", "l", "e", "s", " ", "2", "0", "2", "3">>, <<" ">> \o <<"a", " ", " ", "b", " ", "c", " ", "d", " ", "e", " ", "f">>, <<"a", " ", "b", " ", "c", " ", "d", " ", "e">>}

NavigatorPlans ==
    {RetrievalPlan("HYBRID", Some(UFLFilter(<<EntityId>>, <<StrNetSales>>, <<Str2023>>)),
                   <<"s", "a", "l", "e", "s">>, <<StrSales>>, <<"r">>),
     RetrievalPlan("TEXT_ONLY", None, <<"d", "e", "a", "l">>, <<>>, <<"r">>)}

StrApiError == <<"A", "P", "I", " ", "E", "r", "r", "o", "r">>
StrTimedOut == <<"R", "e", "q", "u", "e", "s", "t", " ", "t", "i", "m", "e", "d", " ", "o", "u", "t", ".">>

Reasonings ==
    {AgentReasoning(m, c) :
        m \in BOOLEAN,
        c \in {None, Some(<<>>), Some(StrPrintOne), Some(StrDivideByZero),
               Some(StrSystemExit), Some(StrLoopForever)}}

FinalResponses == {[answer |-> <<"4", "2">>, data_source_type |-> "GROUNDED"],
                   [answer |-> <<"?">>, data_source_type |-> "NOT_FOUND"]}

AgentStart ==
    [pc |-> "idle", reasoning |-> <<>>, code_result |-> None, result |-> <<>>,
     raised_in |-> "none", trace |-> <<>>]

InitQuery ==
    /\ query \in SampleQueries
    /\ navigator = [pc |-> "idle", plan |-> <<>>, error |-> None]
    /\ agent = AgentStart
    /\ ParseIdle /\ MeltIdle /\ TextIdle /\ IngestIdle /\ RunIdle /\ RetrieveIdle

AskUnchanged == UNCHANGED <<parseVars, meltVars, textVars, ingestVars, runVars, retrieveVars>>

\* navigate(query) up to the oracle call (navigator.py:55-69)
NavigateCall ==
    /\ navigator.pc = "idle"
    /\ navigator' = [navigator EXCEPT !.pc = "wait"]
    /\ UNCHANGED <<query, agent>> /\ AskUnchanged

\* The oracle answers with a plan (lines 78-79)
NavigateReturn ==
    /\ navigator.pc = "wait"
    /\ \E p \in NavigatorPlans : navigator' = [pc |-> "done", plan |-> <<p>>, error |-> None]
    /\ UNCHANGED <<query, agent>> /\ AskUnchanged

\* The oracle call raises (lines 80-88)
NavigateFails ==
    /\ navigator.pc = "wait"
    /\ navigator' = [pc |-> "done", plan |-> <<FallbackPlan(query, StrApiError)>>,
                     error |-> Some(StrApiError)]
    /\ UNCHANGED <<query, agent>> /\ AskUnchanged

\* The OpenAI client gives up waiting and raises (lines 80-88)
NavigateTimeout ==
    /\ navigator.pc = "wait"
    /\ navigator' = [pc |-> "done", plan |-> <<FallbackPlan(query, StrTimedOut)>>,
                     error |-> Some(StrTimedOut)]
    /\ UNCHANGED <<query, agent>> /\ AskUnchanged

\* answer(query, context) up to requests.post of pass 1 (agent.py:78-86, 51-66)
AnswerCall ==
    /\ navigator.pc = "done"
    /\ agent.pc = "idle"
    /\ agent' = [agent EXCEPT !.pc = "pass1_wait", !.trace = Append(@, "pass1_start")]
    /\ UNCHANGED <<query, navigator>> /\ AskUnchanged

\* Pass 1 answers with a valid AgentReasoning (lines 67-75, 86-89)
Pass1Return ==
    /\ agent.pc = "pass1_wait"
    /\ \E r \in Reasonings :
          agent' = [agent EXCEPT !.pc = "pass1_done", !.reasoning = <<r>>,
                                 !.trace = Append(@, "pass1_end")]
    /\ UNCHANGED <<query, navigator>> /\ AskUnchanged

\* Pass 1 answers with an error status or with no valid JSON: answer raises
Pass1Fails ==
    /\ agent.pc = "pass1_wait"
    /\ agent' = [agent EXCEPT !.pc = "raised", !.raised_in = "pass1",
                              !.trace = Append(@, "pass1_end")]
    /\ UNCHANGED <<query, navigator>> /\ AskUnchanged

\* self.executor.execute(reasoning.python_code) starts (lines 90-92)
ComputeStart ==
    /\ agent.pc = "pass1_done"
    /\ RunsCode(agent.reasoning[1])
    /\ agent' = [agent EXCEPT !.pc = "compute_run", !.trace = Append(@, "compute_start")]
    /\ UNCHANGED <<query, navigator>> /\ AskUnchanged

\* exec ends: execute returns output and error, or what it does not catch goes
\* up through answer (executor.py:19-34)
ComputeReturn ==
    /\ agent.pc = "compute_run"
    /\ LET x == Exec(agent.reasoning[1].python_code[1])
       IN  /\ x.outcome # "hangs"
           /\ agent' =
                 IF x.outcome = "ok"
                 THEN [agent EXCEPT !.pc = "compute_done",
                                    !.code_result = Some([output |-> Strip(x.output),
                                                          error |-> None]),
                                    !.trace = Append(@, "compute_end")]
                 ELSE IF ExecuteCatches(x.outcome)
                 THEN [agent EXCEPT !.pc = "compute_done",
                                    !.code_result = Some([output |-> Strip(x.output),
                                                          error |-> Some(<<"T", "r", "a", "c", "e", "b", "a", "c", "k">>)]),
                                    !.trace = Append(@, "compute_end")]
                 ELSE [agent EXCEPT !.pc = "raised", !.raised_in = "compute",
                                    !.trace = Append(@, "compute_end")]
    /\ UNCHANGED <<query, navigator>> /\ AskUnchanged

\* Pass 2 is called (lines 98-117)
Pass2Call ==
    /\ \/ agent.pc = "compute_done"
       \/ agent.pc = "pass1_done" /\ ~RunsCode(agent.reasoning[1])
    /\ agent' = [agent EXCEPT !.pc = "pass2_wait", !.trace = Append(@, "pass2_start")]
    /\ UNCHANGED <<query, navigator>> /\ AskUnchanged

\* Pass 2 answers: answer returns (lines 119-123)
Pass2Return ==
    /\ agent.pc = "pass2_wait"
    /\ \E final \in FinalResponses :
          agent' = [agent EXCEPT !.pc = "done",
                                 !.result = <<[final_response |-> final,
                                               reasoning |-> agent.reasoning[1],
                                               code_result |-> agent.code_result]>>,
                                 !.trace = Append(@, "pass2_end")]
    /\ UNCHANGED <<query, navigator>> /\ AskUnchanged

\* The pass 2 call raises: answer raises
Pass2Fails ==
    /\ agent.pc = "pass2_wait"
    /\ agent' = [agent EXCEPT !.pc = "raised", !.raised_in = "pass2",
                              !.trace = Append(@, "pass2_end")]
    /\ UNCHANGED <<query, navigator>> /\ AskUnchanged

\* The OpenAI client gives up waiting for pass 2 and raises: answer raises
Pass2Timeout ==
    /\ agent.pc = "pass2_wait"
    /\ agent' = [agent EXCEPT !.pc = "raised", !.raised_in = "pass2_timeout",
                              !.trace = Append(@, "pass2_end")]
    /\ UNCHANGED <<query, navigator>> /\ AskUnchanged

NextQuery ==
    \/ NavigateCall \/ NavigateReturn \/ NavigateFails \/ NavigateTimeout
    \/ AnswerCall \/ Pass1Return \/ Pass1Fails
    \/ ComputeStart \/ ComputeReturn
    \/ Pass2Call \/ Pass2Return \/ Pass2Fails \/ Pass2Timeout

SpecQuery == InitQuery /\ [][NextQuery]_vars

\* The steps the code takes by itself or that a client timeout forces; in every
\* state at most one of them is enabled
ProgramStep ==
    \/ NavigateCall \/ NavigateTimeout
    \/ AnswerCall
    \/ ComputeStart \/ ComputeReturn
    \/ Pass2Call \/ Pass2Timeout

SpecQueryFair == SpecQuery /\ WF_vars(ProgramStep)

(***************************************************************************)
(* What a table says, read off its lines without the melter: the tables of *)
(* SpecMelt are a header line, a separator line and body lines.            *)
(***************************************************************************)
MeltRows == melted[1].ufl_rows

BodyLines(lines) == SubSeq(lines, 3, Len(lines))

\* The label of a body line: its first cell without indentation and blanks
LeafLabel(line) ==
    LET r == LStrip(line[1]) IN Strip(Slice(r, SkipIndent(r, 1), Len(r)))

\* A label the frame reads as missing
IsMissingLabel(lab) == lab \in NaStrings \/ Lower(lab) = NanStr

\* A body line whose only populated cell is its label
IsLabelOnly(line) ==
    /\ ~IsMissingLabel(LeafLabel(line))
    /\ \A j \in 2..Len(line) : Strip(line[j]) = <<>>

\* The indentation depth the table shows: an &nbsp; counts as two blanks, and
\* two blanks past the pad blank of the cell are one level
ShownDepth(line) ==
    LET n == SkipIndent(line[1], 1) - 1
    IN  Len(ReplaceChar(Slice(line[1], 1, n), NBSP, <<" ", " ">>)) \div 2

\* The ancestor chain of body line i: the label-only lines above it that are
\* still open, kept as a stack of <<depth, label>> pairs
RECURSIVE PopTo(_, _)
PopTo(stack, d) ==
    IF stack # <<>> /\ stack[Len(stack)][1] >= d
    THEN PopTo(Slice(stack, 1, Len(stack) - 1), d) ELSE stack

RECURSIVE OpenParents(_, _)
OpenParents(body, i) ==
    IF i = 0 THEN <<>>
    ELSE LET before == PopTo(OpenParents(body, i - 1), ShownDepth(body[i]))
         IN  IF IsLabelOnly(body[i])
             THEN Append(before, <<ShownDepth(body[i]), LeafLabel(body[i])>>)
             ELSE before

AncestorChain(body, i) ==
    LET st == PopTo(OpenParents(body, i - 1), ShownDepth(body[i]))
    IN  [k \in 1..Len(st) |-> st[k][2]]

\* The value a sample cell holds
CellValue(raw) ==
    LET c == Strip(raw)
    IN  IF c = <<"5">> THEN Some(5) ELSE IF c = <<"-">> THEN Some(0) ELSE None

\* The body lines that carry a label, in order, and the period columns
DataLines(lines) ==
    LET HasLabel(l) == ~IsMissingLabel(LeafLabel(l)) IN SelectSeq(BodyLines(lines), HasLabel)

PeriodNames(lines) == [j \in 1..(Len(lines[1]) - 1) |-> Strip(lines[1][j + 1])]

\* The emitted row of data line n and period column k, by position
RowOf(n, k) == MeltRows[(n - 1) * Len(PeriodNames(table_block.lines)) + k]

TableScale == IF \E i \in 1..Len(table_block.section_path) :
                     Contains(Lower(table_block.section_path[i]), KwMillions)
              THEN 1000000 ELSE 1

IsUnscaledMetric(name) ==
    \E kw \in KwPerShare \cup KwRatio : Contains(Lower(name), kw)

(***************************************************************************)
(* C5.  In melt, a table row whose only populated cell is its label is     *)
(* pushed on the parent stack, and no fact row is emitted whose metric     *)
(* name is that row's own label (unless a row with values has that name).  *)
(***************************************************************************)
C5_ParentLabelNeverEmitted ==
    melted # <<>> =>
        LET lines == table_block.lines
            valued == {LeafLabel(lines[j]) : j \in {j \in 3..Len(lines) : ~IsLabelOnly(lines[j])}}
        IN  \A i \in 3..Len(lines) :
                IsLabelOnly(lines[i]) =>
                    /\ i \in melted[1].pushed
                    /\ LeafLabel(lines[i]) \notin valued =>
                          \A k \in 1..Len(MeltRows) :
                              MeltRows[k].metric_name # LeafLabel(lines[i])

(***************************************************************************)
(* C6.  Two distinct rows with values, the same leaf label and different   *)
(* ancestor chains are emitted with different metric_names and row_ids.    *)
(***************************************************************************)
C6_HierarchicalDisambiguation ==
    melted # <<>> =>
        LET data == DataLines(table_block.lines)
            body == BodyLines(table_block.lines)
        IN  (data = body /\ Len(PeriodNames(table_block.lines)) = 1
             /\ Len(MeltRows) = Len(data)) =>
                \A i, j \in 1..Len(body) :
                    (/\ i < j
                     /\ ~IsLabelOnly(body[i]) /\ ~IsLabelOnly(body[j])
                     /\ LeafLabel(body[i]) = LeafLabel(body[j])
                     /\ AncestorChain(body, i) # AncestorChain(body, j)) =>
                        /\ RowOf(i, 1).metric_name # RowOf(j, 1).metric_name
                        /\ RowOf(i, 1).row_id # RowOf(j, 1).row_id

(***************************************************************************)
(* C7.  Mixed-scale exception: in a table scaled to millions a row whose   *)
(* cleaned metric label contains "per share", "eps", "ratio", "percentage" *)
(* or "margin" has scale_factor 1 and the parsed cell value unscaled;      *)
(* every other row has the parsed value times the table-wide scale.        *)
(***************************************************************************)
C7_MixedScaleException ==
    melted # <<>> =>
        LET data == DataLines(table_block.lines)
            per == PeriodNames(table_block.lines)
        IN  /\ Len(MeltRows) = Len(data) * Len(per)
            /\ \A n \in 1..Len(data), k \in 1..Len(per) :
                  LET r == RowOf(n, k)
                      v == CellValue(data[n][k + 1])
                      f == IF IsUnscaledMetric(r.metric_name) THEN 1 ELSE TableScale
                  IN  /\ r.scale_factor = f
                      /\ r.value = IF v = None THEN None ELSE Some(v[1] * f)

C7_Witness ==
    /\ melted # <<>>
    /\ TableScale = 1000000
    /\ \E a, b \in 1..Len(MeltRows) :
          /\ MeltRows[a].metric_name = StrEPS /\ MeltRows[a].value = Some(5)
          /\ MeltRows[a].scale_factor = 1
          /\ MeltRows[b].metric_name = StrCash /\ MeltRows[b].value = Some(5000000)

HasRestatedNuance(r) ==
    /\ r.nuance_note # None
    /\ \E i \in 1..Len(r.nuance_note[1]) :
          r.nuance_note[1][i] \in {"Restated", " (Restated)"}

C10_RestatedColumns ==
    (melted # <<>> /\ PeriodNames(table_block.lines) = <<Str2022, Str2022Restated>>) =>
        LET data == DataLines(table_block.lines)
        IN  /\ Len(MeltRows) = 2 * Len(data)
            /\ \A n \in 1..Len(data) :
                  /\ RowOf(n, 1).period = Str2022
                  /\ RowOf(n, 2).period = Str2022Restated
                  /\ RowOf(n, 1).metric_name = RowOf(n, 2).metric_name
                  /\ RowOf(n, 1).row_id # RowOf(n, 2).row_id
                  /\ HasRestatedNuance(RowOf(n, 2))
                  /\ ~HasRestatedNuance(RowOf(n, 1))

C10_Witness ==
    /\ melted # <<>>
    /\ PeriodNames(table_block.lines) = <<Str2022, Str2022Restated>>
    /\ Len(MeltRows) = 2
    /\ MeltRows[1].value = Some(5) /\ MeltRows[2].value = Some(5)
    /\ MeltRows[1].row_id # MeltRows[2].row_id

(***************************************************************************)
(* C2.  Any two fact rows that differ in entity id, metric name, period,   *)
(* source block id or value have different row_ids (the hash taken as      *)
(* injective on the seed).                                                 *)
(***************************************************************************)
SameIdentity(r1, r2) ==
    /\ r1.entity_id = r2.entity_id
    /\ r1.metric_name = r2.metric_name
    /\ r1.period = r2.period
    /\ r1.source_chunk_id = r2.source_chunk_id
    /\ r1.value = r2.value

RowIdsTellApart(rows) ==
    \A i, j \in 1..Len(rows) :
        ~SameIdentity(rows[i], rows[j]) => rows[i].row_id # rows[j].row_id

C2_RowIdsDifferWithFields ==
    /\ extracted # <<>> => RowIdsTellApart(extracted[1])
    /\ melted # <<>> => RowIdsTellApart(melted[1].ufl_rows)

(***************************************************************************)
(* C4.  Every fact row the Table Melter or the Text Fact Normalizer emits   *)
(* has a confidence in [0, 1] (0..100 hundredths), whatever the table and  *)
(* whatever scraped facts the oracle returns.                              *)
(***************************************************************************)
ConfidenceInUnitInterval(rows) ==
    \A i \in 1..Len(rows) : rows[i].confidence >= 0 /\ rows[i].confidence <= 100

C4_ConfidenceInUnitInterval ==
    /\ extracted # <<>> => ConfidenceInUnitInterval(extracted[1])
    /\ melted # <<>> => ConfidenceInUnitInterval(melted[1].ufl_rows)

(***************************************************************************)
(* C9.  For a cell made of a number (digits with thousands separators,     *)
(* plain or in accounting parentheses) immediately followed by a           *)
(* parenthesised alphanumeric footnote marker, _parse_numeric returns the  *)
(* value of the number, never null and never with the marker's digits.     *)
(***************************************************************************)
IsPlainNumber(t) ==
    /\ t # <<>>
    /\ \A i \in 1..Len(t) : t[i] \in Digits \cup {","}
    /\ t[1] \in Digits /\ t[Len(t)] \in Digits

IsNumberText(t) ==
    \/ IsPlainNumber(t)
    \/ Len(t) >= 3 /\ t[1] = "(" /\ t[Len(t)] = ")" /\ IsPlainNumber(Slice(t, 2, Len(t) - 1))

NumberValue(t) ==
    IF t[1] = "(" THEN 0 - DigitsValue(ReplaceChar(Slice(t, 2, Len(t) - 1), ",", <<>>))
    ELSE DigitsValue(ReplaceChar(t, ",", <<>>))

IsFootnoteMarker(t) ==
    /\ Len(t) >= 3 /\ t[1] = "(" /\ t[Len(t)] = ")"
    /\ \A i \in 2..(Len(t) - 1) : t[i] \in Digits \cup LowerLetters

C9_FootnoteStripped ==
    parsed # <<>> =>
        \A k \in 1..(Len(cell) - 1) :
            (IsNumberText(Slice(cell, 1, k)) /\ IsFootnoteMarker(Slice(cell, k + 1, Len(cell)))) =>
                parsed[1].val = Some(NumberValue(Slice(cell, 1, k)))

(***************************************************************************)
(* C1.  Idempotent re-ingestion: segmenting the same document and melting  *)
(* and normalising its blocks twice, with the same oracle answer, gives    *)
(* the same set of row_ids both times.                                     *)
(***************************************************************************)
RowIdsOf(p) ==
    UNION {{synthesized[p][k][i].row_id : i \in 1..Len(synthesized[p][k])} :
              k \in 1..Len(synthesized[p])}

ParseSynthesized(p) == p \in 1..Len(parses) /\ Len(synthesized[p]) = Len(parses[p])

C1_IdempotentReingestion ==
    \A p, q \in 1..Len(parses) :
        (ParseSynthesized(p) /\ ParseSynthesized(q)) => RowIdsOf(p) = RowIdsOf(q)

(***************************************************************************)
(* C3.  After a run that completes, every fact row of the ledger has the   *)
(* id of a block the segmenter produced for the document, and that block   *)
(* is in the content index.                                                *)
(***************************************************************************)
C3_RowsReferenceIndexedBlocks ==
    \A n \in 1..Len(runs) :
        ~runs[n].raised =>
            \A i \in 1..Len(runs[n].rows) :
                /\ \E k \in 1..Len(runs[n].blocks) :
                      runs[n].blocks[k].id = runs[n].rows[i].source_chunk_id
                /\ runs[n].rows[i].source_chunk_id \in content_index

\* The case of C3: a completed run with a row in the ledger
C3_Case == \E n \in 1..Len(runs) : ~runs[n].raised /\ runs[n].rows # <<>>

\* No run with blocks gets past line 61
C3_CaseNeverHappens ==
    /\ ~C3_Case
    /\ ufl_file = <<>> /\ content_index = {}
    /\ \A n \in 1..Len(runs) : runs[n].blocks # <<>> => runs[n].raised

(***************************************************************************)
(* C11: each emitted Block's section_path is the header stack built from   *)
(* all header lines that precede the Block's first line, where a header of *)
(* level L truncates the stack to its first L-1 entries and then pushes    *)
(* its title; so a header flushes the pending buffer under the stack as it *)
(* was before that header.                                                 *)
(***************************************************************************)
\* The stack after a header of the given level and title, in the claim's words
AfterHeader(stack, level, title) ==
    Append([j \in 1..Min(level - 1, Len(stack)) |-> stack[j]], title)

\* The header stack built from the header lines among the first n lines
RECURSIVE HeaderStackOf(_, _)
HeaderStackOf(lines, n) ==
    IF n = 0 THEN <<>>
    ELSE LET before == HeaderStackOf(lines, n - 1)
             hm == HeaderMatch(MdText(lines[n]))
         IN  IF hm.ok THEN AfterHeader(before, hm.level, hm.title) ELSE before

\* The numbers of the first lines of the blocks of the document
BlockFirstLines == parse_pdf(documents, 0).first_lines

C11_SectionPathIsHeaderStack ==
    parses # <<>> =>
        /\ Len(BlockFirstLines) = Len(parses[1])
        /\ \A k \in 1..Len(parses[1]) :
               /\ BlockFirstLines[k] \in 1..Len(documents[1])
               /\ ~HeaderMatch(MdText(documents[1][BlockFirstLines[k]])).ok
               /\ parses[1][k].section_path
                      = HeaderStackOf(documents[1], BlockFirstLines[k] - 1)

\* A block under ["A","B"] is followed by a block under ["A"]: a level-1 header
\* came after a level-2 header, and the buffer before it kept the old stack
C11_Witness ==
    /\ parses # <<>>
    /\ \E k \in 1..Len(parses[1]) - 1 :
           /\ parses[1][k].section_path = <<<<"A">>, <<"B">>>>
           /\ parses[1][k + 1].section_path = <<<<"A">>>>

(***************************************************************************)
(* C12: in the text fact normalizer, a scraped fact whose raw value is a   *)
(* string that cannot be parsed as a float (after removing thousands       *)
(* separators) yields a row with value null whose nuance note contains the *)
(* original raw string.  The facts meant are those the normalizer keeps    *)
(* (confidence not below the minimum, block of 10 characters or more,      *)
(* oracle call answered).                                                  *)
(***************************************************************************)
AtLeastMinimum(fact) == fact.confidence >= CONFIDENCE_TEXT_LOW

\* The facts of the oracle's answer that are not below the minimum, in order
KeptFacts == SelectSeq(oracle.facts, AtLeastMinimum)

\* extract_facts has run on a block it does not skip and the oracle answered
Normalized == extracted # <<>> /\ Len(Strip(text_block.content)) >= 10 /\ oracle.ok

IsUnparseableString(value) ==
    value.kind = "str" /\ PyFloat(ReplaceChar(value.str, ",", <<>>)) = None

C12_RawStringPreserved ==
    Normalized =>
        \A i \in 1..Len(KeptFacts) :
            IsUnparseableString(KeptFacts[i].value) =>
                /\ i <= Len(extracted[1])
                /\ extracted[1][i].value = None
                /\ extracted[1][i].nuance_note # None
                /\ Contains(extracted[1][i].nuance_note[1], KeptFacts[i].value.str)

\* Kept facts with the raw value "1,x": one without a nuance note and one with
C12_Witness ==
    /\ Normalized
    /\ \E i, j \in 1..Len(KeptFacts) :
           /\ KeptFacts[i].value = StrValue(<<"1", ",", "x">>)
           /\ KeptFacts[j].value = StrValue(<<"1", ",", "x">>)
           /\ KeptFacts[i].nuance_note = None
           /\ KeptFacts[j].nuance_note # None
           /\ extracted[1][i].nuance_note = Some(<<"1", ",", "x">>)

(***************************************************************************)
(* C13: for a text Block and any list of scraped facts returned by the     *)
(* oracle, the normalizer returns exactly one row per fact whose           *)
(* confidence is not below the configured minimum, in oracle order, and no *)
(* row for a fact below it; every returned row has source block id equal   *)
(* to the Block's id.                                                      *)
(***************************************************************************)
\* The row is the row of the fact: what the row copies from the fact
IsRowOf(row, fact) ==
    /\ row.metric_name = fact.metric_name
    /\ row.unit = fact.unit
    /\ row.confidence = fact.confidence
    /\ row.related_entity_id = fact.related_entity
    /\ (fact.period # None /\ fact.period[1] # <<>>) => row.period = fact.period[1]
    /\ fact.value.kind = "num" => row.value = Some(fact.value.num)

C13_OneRowPerKeptFact ==
    Normalized =>
        /\ Len(extracted[1]) = Len(KeptFacts)
        /\ \A i \in 1..Len(extracted[1]) :
               /\ IsRowOf(extracted[1][i], KeptFacts[i])
               /\ extracted[1][i].confidence >= CONFIDENCE_TEXT_LOW
               /\ extracted[1][i].source_chunk_id = text_block.id

\* The oracle returned a fact below the minimum and then a fact exactly at the
\* minimum: only the second has a row
C13_Witness ==
    /\ Normalized
    /\ Len(oracle.facts) = 2
    /\ oracle.facts[1].confidence < CONFIDENCE_TEXT_LOW
    /\ oracle.facts[2].confidence = CONFIDENCE_TEXT_LOW
    /\ Len(extracted[1]) = 1
    /\ extracted[1][1].confidence = CONFIDENCE_TEXT_LOW

(***************************************************************************)
(* C14: given a plan whose ledger filter matches one row with a non-null   *)
(* related_entity_id, the block set returned by retrieve includes at least *)
(* one block that was retrieved by the relational-expansion search for     *)
(* that entity, for every state of the content index.                      *)
(***************************************************************************)
Retrieved == results # <<>>

\* The entities that the rows matched by the plan's ledger filter relate to
MatchedRelatedEntities == RelatedEntities(SelectedRows(ufl_df, plan))

\* A returned block is one that the relational-expansion search for e returned
ExpansionBlockReturned(e) ==
    \E i \in 1..Len(results[1].entity_chunks), j \in 1..Len(results[1].text_chunks) :
        /\ results[1].entity_chunks[i].entity = e
        /\ InList(results[1].text_chunks[j], results[1].entity_chunks[i].chunks)

C14_ExpansionBlockIncluded ==
    Retrieved =>
        \A e \in MatchedRelatedEntities : ~results[1].raised /\ ExpansionBlockReturned(e)

\* C14 as amended: the same, for every state of the content index that holds at
\* least one block
C14_ExpansionBlockIncluded_NonEmptyIndex ==
    (Retrieved /\ text_collection # {}) =>
        \A e \in MatchedRelatedEntities : ~results[1].raised /\ ExpansionBlockReturned(e)

\* With k = 1, no keyword search and no source-block expansion a second block
\* can only have come from the relational expansion
C14_Witness ==
    /\ Retrieved
    /\ MatchedRelatedEntities # {}
    /\ retrieve_args.k = 1 /\ ~retrieve_args.include_all_chunks_for_ufl
    /\ plan.vector_keywords = <<>>
    /\ Len(results[1].text_chunks) = 2
    /\ ExpansionBlockReturned(StrBoeing)

(***************************************************************************)
(* C15: when the ledger file is absent (empty ledger), retrieve completes  *)
(* without raising for every plan and every content-index state, including *)
(* an index whose searches return blocks, and returns zero fact rows.      *)
(***************************************************************************)
C15_EmptyLedgerNeverRaises ==
    (Retrieved /\ ufl_df = NoFrame) =>
        /\ ~results[1].raised
        /\ results[1].ufl_rows = <<>>
        /\ results[1].meta.ufl_count = 0

(***************************************************************************)
(* C16: for every retrieval result, the assembled context contains both    *)
(* section headers (fact ledger rows, then source text chunks) in that     *)
(* fixed order; the fact section is the placeholder 'No structured facts   *)
(* found.' exactly when there are no rows, and the text section is 'No     *)
(* source text available.' exactly when there are no blocks.               *)
(***************************************************************************)
\* s.split("\n")
RECURSIVE SplitLines(_)
SplitLines(s) ==
    IF \A i \in 1..Len(s) : s[i] # NL THEN <<s>>
    ELSE LET n == CHOOSE i \in 1..Len(s) : s[i] = NL /\ \A j \in 1..(i - 1) : s[j] # NL
         IN  <<SubSeq(s, 1, n - 1)>> \o SplitLines(SubSeq(s, n + 1, Len(s)))

\* The places of a line among the lines
LinesEqual(lines, text) == {i \in 1..Len(lines) : lines[i] = text}

Assembled == full_context # <<>>

\* The lines between two header lines: the section under the first header,
\* without the blank line that ends it
SectionLines(lines, header, next_header) ==
    LET i == CHOOSE n \in LinesEqual(lines, header) : \A m \in LinesEqual(lines, header) : n <= m
        j == CHOOSE n \in LinesEqual(lines, next_header) :
                 n > i /\ \A m \in LinesEqual(lines, next_header) : m > i => n <= m
    IN  SubSeq(lines, i + 1, j - 2)

HeadersInOrder(lines) ==
    \E i \in LinesEqual(lines, StrFactHeader), j \in LinesEqual(lines, StrTextHeader),
       h \in LinesEqual(lines, StrInstructionsHeader) : i < j /\ j < h

C16_BothSectionsAlways ==
    Assembled =>
        /\ HeadersInOrder(SplitLines(full_context[1]))
        /\ (SectionLines(SplitLines(full_context[1]), StrFactHeader, StrTextHeader)
                = <<StrNoFacts>>)
           <=> (results[1].ufl_rows = <<>>)
        /\ (SectionLines(SplitLines(full_context[1]), StrTextHeader, StrInstructionsHeader)
                = <<StrNoText>>)
           <=> (results[1].text_chunks = <<>>)

\* Zero rows and zero blocks: both placeholders under both headers
C16_Witness ==
    /\ Assembled
    /\ results[1].ufl_rows = <<>> /\ results[1].text_chunks = <<>>
    /\ HeadersInOrder(SplitLines(full_context[1]))
    /\ SectionLines(SplitLines(full_context[1]), StrFactHeader, StrTextHeader) = <<StrNoFacts>>
    /\ SectionLines(SplitLines(full_context[1]), StrTextHeader, StrInstructionsHeader)
           = <<StrNoText>>

(***************************************************************************)
(* C17: in ReasoningAgent.answer, pass 1 finishes before the compute step  *)
(* starts; the compute step runs exactly when pass 1 requests math and     *)
(* supplies code, and finishes before pass 2 starts; every failure of the  *)
(* compute step is returned in the result's error field and pass 2 still   *)
(* runs, so no compute failure is raised to the caller.                    *)
(***************************************************************************)
\* The place of an event in answer's history, 0 when it has not happened
Place(event) ==
    IF \E i \in 1..Len(agent.trace) : agent.trace[i] = event
    THEN CHOOSE i \in 1..Len(agent.trace) : agent.trace[i] = event
    ELSE 0

Happened(event) == Place(event) > 0

RequestsMathWithCode ==
    /\ agent.reasoning # <<>>
    /\ agent.reasoning[1].requires_math
    /\ agent.reasoning[1].python_code \notin {None, Some(<<>>)}

\* The code that pass 1 supplied fails when run
ComputeFails ==
    /\ RequestsMathWithCode
    /\ Exec(agent.reasoning[1].python_code[1]).outcome \in {"exception", "base_exception"}

C17_ComputeStepContained ==
    agent # <<>> =>
        /\ Happened("compute_start") =>
               Happened("pass1_end") /\ Place("pass1_end") < Place("compute_start")
        /\ Happened("pass2_start") =>
               /\ Happened("compute_start") <=> RequestsMathWithCode
               /\ Happened("compute_start") =>
                      Happened("compute_end") /\ Place("compute_end") < Place("pass2_start")
        /\ agent.raised_in # "compute"
        /\ (Happened("compute_end") /\ ComputeFails) =>
               agent.pc \in {"compute_done", "pass2_wait", "done"} \/ agent.raised_in # "compute"
        /\ (agent.pc = "done" /\ ComputeFails) =>
               /\ agent.result[1].code_result # None
               /\ agent.result[1].code_result[1].error # None

(***************************************************************************)
(* C18: no operation blocks indefinitely: every oracle call carries a      *)
(* timeout, so with an oracle that never answers, and with a compute step  *)
(* that never returns, navigate and answer still eventually return or      *)
(* fail.                                                                   *)
(***************************************************************************)
NavigateEnded == navigator # <<>> /\ navigator.pc = "done"
AnswerEnded == agent # <<>> /\ agent.pc \in {"done", "raised"}

C18_NoOperationBlocksForever == <>NavigateEnded /\ <>AnswerEnded

(***************************************************************************)
(* C19: whenever the query-planning oracle call fails, navigate does not   *)
(* raise and returns the fallback plan: strategy text-only, no ledger      *)
(* filter, hypothesis equal to the query, keywords equal to the first 5    *)
(* whitespace-separated tokens of the query, reasoning carrying the error  *)
(* message.                                                                *)
(***************************************************************************)
\* The positions of the query where a maximal run of non-blank characters starts
TokenStarts(q) == {i \in 1..Len(q) : ~IsSpace(q[i]) /\ (i = 1 \/ IsSpace(q[i - 1]))}

\* The k-th whitespace-separated token of the query
Token(q, k) ==
    LET i == CHOOSE a \in TokenStarts(q) : Cardinality({b \in TokenStarts(q) : b < a}) = k - 1
        j == CHOOSE e \in i..Len(q) :
                 /\ \A m \in i..e : ~IsSpace(q[m])
                 /\ (e = Len(q) \/ IsSpace(q[e + 1]))
    IN  SubSeq(q, i, j)

FirstFiveTokens(q) == [k \in 1..Min(5, Cardinality(TokenStarts(q))) |-> Token(q, k)]

OracleFailed == navigator # <<>> /\ navigator.error # None

C19_FallbackPlanOnFailure ==
    OracleFailed =>
        /\ navigator.pc = "done"
        /\ Len(navigator.plan) = 1
        /\ navigator.plan[1].strategy = "TEXT_ONLY"
        /\ navigator.plan[1].ufl_query = None
        /\ navigator.plan[1].vector_hypothesis = query
        /\ navigator.plan[1].vector_keywords = FirstFiveTokens(query)
        /\ Contains(navigator.plan[1].reasoning, navigator.error[1])

\* The oracle call failed on a query of six tokens
C19_Witness ==
    /\ OracleFailed
    /\ Cardinality(TokenStarts(query)) > 5
    /\ Len(navigator.plan[1].vector_keywords) = 5

(***************************************************************************)
(* C21: every schema summary that a pipeline run saves is rebuilt from     *)
(* that run alone: its entity list contains the entity of the run's        *)
(* document, and its metric list is the distinct metric names of that      *)
(* run's rows ordered by descending occurrence count among those rows (at  *)
(* most 500), whatever earlier runs were made on the same pipeline object  *)
(* and whether or not extraction was skipped because a ledger existed.     *)
(***************************************************************************)
\* How often a metric name occurs among the rows
Occurrences(rows, name) == Cardinality({i \in 1..Len(rows) : rows[i].metric_name = name})

\* The metric list is the distinct metric names of the rows (at most 500 of
\* them), by descending occurrence count
IsMetricListOf(metrics, rows) ==
    LET names == {rows[i].metric_name : i \in 1..Len(rows)}
    IN  /\ Len(metrics) = Min(500, Cardinality(names))
        /\ \A i \in 1..Len(metrics) : metrics[i] \in names
        /\ \A i, j \in 1..Len(metrics) : metrics[i] = metrics[j] => i = j
        /\ \A i, j \in 1..Len(metrics) :
              i < j => Occurrences(rows, metrics[i]) >= Occurrences(rows, metrics[j])
        /\ \A m \in names :
              (\A i \in 1..Len(metrics) : metrics[i] # m) =>
                  \A i \in 1..Len(metrics) :
                      Occurrences(rows, metrics[i]) >= Occurrences(rows, m)

C21_SchemaRebuiltPerRun ==
    \A n \in 1..Len(runs) :
        runs[n].saved # <<>> =>
            /\ \E i \in 1..Len(runs[n].saved[1].entities) :
                  runs[n].saved[1].entities[i].id = EntityId
            /\ IsMetricListOf(runs[n].saved[1].metrics, runs[n].rows)

(***************************************************************************)
(* C23: retrieval phases are additive: the sets of block ids and row ids   *)
(* held in the running maps only grow from phase to phase, so every block  *)
(* returned by the semantic or keyword search and every row (row_id)       *)
(* returned by the ledger filter is in the final result of retrieve.       *)
(***************************************************************************)
BlockIds(chunks) == {chunks[i].id : i \in 1..Len(chunks)}
RowIds(rows) == {rows[i].row_id : i \in 1..Len(rows)}
Returned == Retrieved /\ ~results[1].raised

MeetsConstraints(r, f) ==
    /\ f.entity_ids # <<>> => InList(r.entity_id, f.entity_ids)
    /\ f.years # <<>> => \E i \in 1..Len(f.years) : Contains(r.period, f.years[i])

ExactMetric(r, f) == InList(r.metric_name, f.metric_keywords)

ContainsKeyword(r, f) ==
    \E i \in 1..Len(f.metric_keywords) :
        Contains(Lower(r.metric_name), Lower(f.metric_keywords[i]))

\* What the claim says the filter returns
FilterAsClaimed(rows, f) ==
    LET ok(r) == MeetsConstraints(r, f)
        some_exact == \E i \in 1..Len(rows) : ok(rows[i]) /\ ExactMetric(rows[i], f)
        exact(r) == ok(r) /\ ExactMetric(r, f)
        fuzzy(r) == ok(r) /\ ContainsKeyword(r, f)
    IN  IF some_exact THEN SelectSeq(rows, exact) ELSE SelectSeq(rows, fuzzy)

C24_MetricFallback ==
    (Retrieved /\ plan.ufl_query # None /\ plan.ufl_query[1].metric_keywords # <<>>) =>
        results[1].history.selected_ufl_rows = FilterAsClaimed(ufl_df.rows, plan.ufl_query[1])

(***************************************************************************)
(* C26: block-to-row completeness: when the block-to-row expansion is      *)
(* enabled, after retrieve returns, every ledger row (each distinct row,   *)
(* not only each distinct row_id) whose source block id is the id of a     *)
(* block in the returned block set is in the returned row set.             *)
(***************************************************************************)
C26_BlockToRowComplete ==
    (Returned /\ retrieve_args.include_all_ufl_for_chunks) =>
        \A i \in 1..Len(ufl_df.rows) :
            ufl_df.rows[i].source_chunk_id \in BlockIds(results[1].text_chunks) =>
                InList(ufl_df.rows[i], results[1].ufl_rows)

\* The same for the ledgers where no two distinct rows share a row_id
UniqueRowIds(rows) ==
    \A i, j \in 1..Len(rows) : rows[i].row_id = rows[j].row_id => rows[i] = rows[j]

C26_CompleteWhenIdsUnique == UniqueRowIds(ufl_df.rows) => C26_BlockToRowComplete

(***************************************************************************)
(* C30: row ids are unique within one ingestion run: no two distinct fact  *)
(* rows appended to the ledger by one run (for example two scraped facts   *)
(* of one text block with the same metric, period and null value but       *)
(* different related entities) share the same row_id.                      *)
(***************************************************************************)
C30_RowIdsUnique ==
    extracted # <<>> =>
        \A i, j \in 1..Len(extracted[1]) :
            extracted[1][i] # extracted[1][j] => extracted[1][i].row_id # extracted[1][j].row_id

(***************************************************************************)
(* C28: Context Assembler block ranking: with at most 5 deduplicated       *)
(* blocks all are kept in their original order; with more than 5, exactly  *)
(* 5 are kept, every kept block has a score (5 if it is the source of a    *)
(* candidate row, plus 1 per plan keyword contained case-insensitively in  *)
(* its content) not lower than that of any dropped block, and blocks with  *)
(* equal scores keep their original relative order.                        *)
(***************************************************************************)
\* The first block of every id, in the order of the list
FirstOfEachId(chunks) ==
    LET first(i) == \A j \in 1..(i - 1) : chunks[j].id # chunks[i].id
        firsts == {i \in 1..Len(chunks) : first(i)}
        nth(n) == CHOOSE i \in firsts : Cardinality({j \in firsts : j < i}) = n - 1
    IN  [n \in 1..Cardinality(firsts) |-> chunks[nth(n)]]

\* The score of a block, in the claim's words
ScoreAsClaimed(b) ==
    (IF \E i \in 1..Len(results[1].ufl_rows) : results[1].ufl_rows[i].source_chunk_id = b.id
     THEN 5 ELSE 0)
    + Cardinality({i \in 1..Len(results[1].meta.vector_keywords) :
                      Contains(Lower(b.content), Lower(results[1].meta.vector_keywords[i]))})

\* The place of a block in a list of blocks with distinct ids
PlaceIn(list, b) == CHOOSE i \in 1..Len(list) : list[i].id = b.id

RankedAsClaimed(deduplicated, kept) ==
    IF Len(deduplicated) <= 5 THEN kept = deduplicated
    ELSE /\ Len(kept) = 5
         /\ \A i \in 1..5 : InList(kept[i], deduplicated)
         /\ \A i, j \in 1..5 : kept[i].id = kept[j].id => i = j
         /\ \A i \in 1..5, d \in 1..Len(deduplicated) :
               ~InList(deduplicated[d], kept) =>
                   /\ ScoreAsClaimed(kept[i]) >= ScoreAsClaimed(deduplicated[d])
                   /\ ScoreAsClaimed(kept[i]) = ScoreAsClaimed(deduplicated[d]) =>
                          PlaceIn(deduplicated, kept[i]) < d
         /\ \A i, j \in 1..5 :
               (i < j /\ ScoreAsClaimed(kept[i]) = ScoreAsClaimed(kept[j])) =>
                   PlaceIn(deduplicated, kept[i]) < PlaceIn(deduplicated, kept[j])

C28_BlockRanking ==
    Assembled => RankedAsClaimed(FirstOfEachId(results[1].text_chunks), final_chunks[1])

\* Seven blocks, two dropped: one dropped block has the score of a kept one, and
\* a kept block stands before another that preceded it in the input
C28_Witness ==
    /\ Assembled
    /\ Len(FirstOfEachId(results[1].text_chunks)) = 7
    /\ Len(final_chunks[1]) = 5
    /\ \E i \in 1..5, d \in 1..7 :
          /\ ~InList(results[1].text_chunks[d], final_chunks[1])
          /\ ScoreAsClaimed(final_chunks[1][i]) = ScoreAsClaimed(results[1].text_chunks[d])
    /\ \E i, j \in 1..5 :
          /\ i < j
          /\ PlaceIn(results[1].text_chunks, final_chunks[1][i])
                 > PlaceIn(results[1].text_chunks, final_chunks[1][j])

(***************************************************************************)
(* C29: segmenter kind transitions: whenever a non-blank line without the  *)
(* column separator follows buffered table lines, or a line with the       *)
(* column separator follows buffered non-table lines, the pending buffer   *)
(* is flushed as its own Block before the new line is buffered; hence no   *)
(* emitted Block contains both a line with the column separator and a      *)
(* non-blank line without it, no emitted Block has empty or                *)
(* whitespace-only content, and Blocks appear in input order.              *)
(***************************************************************************)
\* The number of the last line of block k, first_lines holding the first ones
LastLineOf(first_lines, blocks, k) == first_lines[k] + Len(blocks[k].lines) - 1

IsHeaderLine(n) == HeaderMatch(MdText(documents[1][n])).ok
IsTableLine(n) == HasPipe(documents[1][n])
IsNonBlankTextLine(n) == ~HasPipe(documents[1][n]) /\ Strip(MdText(documents[1][n])) # <<>>

\* Line n is of the other kind than the non-blank line before it
KindTransitionAt(n) ==
    /\ n >= 2 /\ ~IsHeaderLine(n) /\ ~IsHeaderLine(n - 1)
    /\ \/ IsTableLine(n) /\ IsNonBlankTextLine(n - 1)
       \/ IsNonBlankTextLine(n) /\ IsTableLine(n - 1)

\* The blocks, with the numbers of their first lines, are as the claim says
BlocksSplitByKind(first_lines, blocks) ==
    /\ Len(first_lines) = Len(blocks)
    /\ \A k \in 1..Len(blocks) :
          /\ first_lines[k] >= 1 /\ LastLineOf(first_lines, blocks, k) <= Len(documents[1])
          /\ k > 1 => LastLineOf(first_lines, blocks, k - 1) < first_lines[k]
          /\ blocks[k].content
                 = Strip(Join([i \in 1..Len(blocks[k].lines) |->
                                  MdText(documents[1][first_lines[k] + i - 1])], <<NL>>))
          /\ Strip(blocks[k].content) # <<>>
          /\ ~\E i, j \in first_lines[k]..LastLineOf(first_lines, blocks, k) :
                 IsTableLine(i) /\ IsNonBlankTextLine(j)
    /\ \A n \in 1..Len(documents[1]) :
          KindTransitionAt(n) =>
              /\ \E k \in 1..Len(blocks) : LastLineOf(first_lines, blocks, k) = n - 1
              /\ \E k \in 1..Len(blocks) : first_lines[k] = n

C29_KindTransitionsFlush == parses # <<>> => BlocksSplitByKind(BlockFirstLines, parses[1])

\* Text, table, text, table: four blocks, each transition of both directions
C29_Witness ==
    /\ parses # <<>>
    /\ Len(documents[1]) = 4 /\ Len(parses[1]) = 4
    /\ IsNonBlankTextLine(1) /\ IsTableLine(2) /\ IsNonBlankTextLine(3) /\ IsTableLine(4)
    /\ KindTransitionAt(2) /\ KindTransitionAt(3) /\ KindTransitionAt(4)

(***************************************************************************)
(* C22: retrieve always halts after one pass through its six phases, never *)
(* iterating to a fixed point: rows added by the block-to-row phase        *)
(* trigger no further relational or source-block expansion, and the number *)
(* of returned blocks is at most k + max(k,5) + 2 times the number of      *)
(* distinct related entities among the ledger-filter rows + 3.             *)
(***************************************************************************)
\* The blocks the relational-expansion searches returned
EntityChunkIds ==
    UNION {BlockIds(results[1].entity_chunks[i].chunks) :
              i \in 1..Len(results[1].entity_chunks)}

\* The source blocks that the ledger-filter rows cite
CitedIds(rows) == {rows[i].source_chunk_id : i \in 1..Len(rows)}

BlockBound(k, entities) == k + (IF k > 5 THEN k ELSE 5) + 2 * entities + 3

C22_OnePassBounded ==
    Returned =>
        LET h == results[1].history
            e == Cardinality(RelatedEntities(h.selected_ufl_rows))
        IN  /\ results[1].text_chunks = h.after_b
            /\ {results[1].entity_chunks[i].entity : i \in 1..Len(results[1].entity_chunks)}
                   = RelatedEntities(h.selected_ufl_rows)
            /\ BlockIds(results[1].text_chunks)
                   \subseteq BlockIds(h.selected_chunks) \cup EntityChunkIds
                                 \cup CitedIds(h.selected_ufl_rows)
            /\ Len(h.after_a) - Len(h.direct) <= 2 * e
            /\ Len(h.after_b) - Len(h.after_a) <= 3
            /\ Len(results[1].text_chunks) <= BlockBound(retrieve_args.k, e)

\* The bound is reached, and the block-to-row phase added a row that relates to
\* an entity no search was made for
C22_Witness ==
    /\ Returned
    /\ Len(results[1].text_chunks)
           = BlockBound(retrieve_args.k,
                        Cardinality(RelatedEntities(results[1].history.selected_ufl_rows)))
    /\ \E i \in 1..Len(results[1].ufl_rows) :
          /\ results[1].ufl_rows[i].related_entity_id = Some(StrAirbus)
          /\ ~InList(results[1].ufl_rows[i], results[1].history.selected_ufl_rows)

(***************************************************************************)
(* C25: row-to-block expansion: when it is enabled, among the source       *)
(* blocks that the ledger-filter rows cite and that are not yet in the     *)
(* candidate block set, retrieve adds the 3 most cited ones (all of them   *)
(* when there are fewer than 3), in descending citation count, and it adds *)
(* no more than 3 blocks in this phase.                                    *)
(***************************************************************************)
Citations(rows, cid) == Cardinality({i \in 1..Len(rows) : rows[i].source_chunk_id = cid})

\* What the phase appended to the candidate blocks
AddedBySources(h) == SubSeq(h.after_b, Len(h.after_a) + 1, Len(h.after_b))

\* The cited blocks that the phase can add: those of the collection that are not
\* yet candidates
SourceCandidates(h) ==
    (CitedIds(h.selected_ufl_rows) \cap {b.id : b \in text_collection}) \ BlockIds(h.after_a)

SourceExpansionAsClaimed(h, enabled) ==
    LET rows == h.selected_ufl_rows
        added == AddedBySources(h)
        candidates == SourceCandidates(h)
    IN  /\ SubSeq(h.after_b, 1, Len(h.after_a)) = h.after_a
        /\ Len(added) <= 3
        /\ ~enabled => added = <<>>
        /\ enabled =>
              /\ BlockIds(added) \subseteq candidates
              /\ Len(added) = Min(3, Cardinality(candidates))
              /\ \A i, j \in 1..Len(added) : added[i].id = added[j].id => i = j
              /\ \A i, j \in 1..Len(added) :
                    i < j => Citations(rows, added[i].id) >= Citations(rows, added[j].id)
              /\ \A cid \in candidates \ BlockIds(added) :
                    \A i \in 1..Len(added) :
                        Citations(rows, added[i].id) >= Citations(rows, cid)

SourcesIndexed(h) == CitedIds(h.selected_ufl_rows) \subseteq {b.id : b \in text_collection}

\* The phase does as claimed whenever every cited block is in the collection
C25_TopThreeIndexedSources ==
    (Retrieved /\ SourcesIndexed(results[1].history)) =>
        SourceExpansionAsClaimed(results[1].history, retrieve_args.include_all_chunks_for_ufl)

\* Four cited blocks are candidates, and the phase added three of them
C25_IndexedWitness ==
    /\ Retrieved /\ retrieve_args.include_all_chunks_for_ufl
    /\ SourcesIndexed(results[1].history)
    /\ Cardinality(SourceCandidates(results[1].history)) >= 4
    /\ Len(AddedBySources(results[1].history)) = 3

(***************************************************************************)
(* C27: the lists that retrieve returns hold no two blocks with the same   *)
(* id and no two rows with the same row_id, and are in phase insertion     *)
(* order: blocks first found by the semantic search come before those      *)
(* first found by the keyword search, then the blocks of the relational    *)
(* expansion, then the blocks of the row-to-block expansion; the rows of   *)
(* the ledger filter come before the rows that the block-to-row expansion  *)
(* added.                                                                  *)
(***************************************************************************)
\* The number of blocks that the semantic search returned: the first entries of
\* the candidates of the direct searches
SemanticCount == Min(retrieve_args.k, Cardinality(text_collection))

\* The phase that found the block first
BlockPhase(h, id) ==
    IF id \in BlockIds(SubSeq(h.selected_chunks, 1, SemanticCount)) THEN 1
    ELSE IF id \in BlockIds(h.selected_chunks) THEN 2
    ELSE IF id \in EntityChunkIds THEN 3
    ELSE 4

RowPhase(h, row_id) == IF row_id \in RowIds(h.selected_ufl_rows) THEN 1 ELSE 2

C27_DistinctInPhaseOrder ==
    Returned =>
        LET h == results[1].history
            chunks == results[1].text_chunks
            rows == results[1].ufl_rows
        IN  /\ \A i, j \in 1..Len(chunks) : chunks[i].id = chunks[j].id => i = j
            /\ \A i, j \in 1..Len(rows) : rows[i].row_id = rows[j].row_id => i = j
            /\ \A i, j \in 1..Len(chunks) :
                  i < j => BlockPhase(h, chunks[i].id) <= BlockPhase(h, chunks[j].id)
            /\ \A i, j \in 1..Len(rows) :
                  i < j => RowPhase(h, rows[i].row_id) <= RowPhase(h, rows[j].row_id)

\* Every phase added a block or a row, and both searches returned a block that
\* an earlier phase had found
C27_Witness ==
    /\ Returned
    /\ \A p \in 1..4 : \E i \in 1..Len(results[1].text_chunks) :
          BlockPhase(results[1].history, results[1].text_chunks[i].id) = p
    /\ \A p \in 1..2 : \E i \in 1..Len(results[1].ufl_rows) :
          RowPhase(results[1].history, results[1].ufl_rows[i].row_id) = p
    /\ Len(results[1].history.direct) < Len(results[1].history.selected_chunks)
    /\ \E i \in 1..Len(results[1].entity_chunks) :
          BlockIds(results[1].entity_chunks[i].chunks)
              \cap BlockIds(results[1].history.direct) # {}
====
